---- MODULE Spec2Model ----
(***************************************************************************)
(* State-machine model of the acquire-zarr streaming orchestrator          *)
(* (src/src/streaming/zarr.stream.cpp): frame re-assembly in               *)
(* ZarrStream::append, the writer-0 hand-off in write_frame_, the          *)
(* multiscale cascade in write_multiscale_frames_, the error latch         *)
(* (set_error_, reached from the thread pool's error callback),            *)
(* finalize_stream, and the pyramid construction loop of create_writers_.  *)
(*                                                                         *)
(* EXPECT(cond, ...) throws std::runtime_error when cond is false (see     *)
(* the try/catch around EXPECT in sink.cpp:241-250 and the @throws notes   *)
(* of sink.hh:87); a throw leaves the function at once and is modelled by  *)
(* pc = "threw" with the reason in exc.                                    *)
(*                                                                         *)
(* Element type of the streamed frames is uint8, so one byte is one pixel. *)
(***************************************************************************)
EXTENDS Integers, Sequences, FiniteSets, TLC

\* ------------------------------------------------------------------ bounds
MaxFrames == 3        \* the caller's input is at most this many frames long
MaxAppend == 5        \* an append call carries at most this many bytes
MaxFail == 1          \* writer write_frame failures per behaviour
MaxExtent == 4        \* largest spatial extent enumerated for create_writers_
MaxFiles == 2         \* most file paths handed to make_file_sinks
MaxDirs == 2          \* most directories handed to make_dirs
MaxDoc == 4           \* longest custom metadata text, in characters
MaxDims == 3          \* most dimensions in the settings handed to the constructor
MaxOmeDims == 5       \* most dimensions of a stream whose OME metadata is built
MaxLevels == 4        \* most writer levels of a stream whose OME metadata is built
MaxPixels == 2        \* most elements of a frame handed to average_two_frames
MaxSide == 3          \* largest width and height of a frame handed to scale_image
MaxPathDims == 4      \* most dimensions handed to construct_data_paths
MaxParts == 3         \* most parts along one dimension handed to construct_data_paths
MaxChunkPx == 2       \* largest chunk_px of an ArrayWriter's append dimension
MaxRowParts == 2      \* most chunks along height and along width of an ArrayWriter
MaxWriterFrames == 3  \* most frames written to an ArrayWriter
MaxShardChunks == 3   \* most chunk positions of a shard
MaxCompressed == 2    \* largest compressed size of a chunk, in bytes
MaxBuffered == 3      \* most bytes a sink holds, written but not flushed, or flushed
MaxCascadeFrames == 4 \* the caller's input to a pyramid stream is at most this many frames

None == <<>>          \* std::nullopt / an empty optional frame

Min(a, b) == IF a < b THEN a ELSE b

\* static_cast<T>(double) truncates toward zero
TruncDiv(a, b) == IF a >= 0 THEN a \div b ELSE -((-a) \div b)

\* --------------------------------------------------------------- variables
VARIABLES
    settings,             \* committed settings: multiscale_, dimensions_ (height, width, chunks)
    pat,                  \* which input byte pattern the caller streams
    error_,               \* std::string error_ ("" = empty)
    frame_buffer_,        \* std::vector<std::byte> frame_buffer_
    frame_buffer_offset_, \* size_t frame_buffer_offset_
    writers_,             \* per level 0..nW-1: the write_frame calls it received, <<[frame, ok]>>
    scaled_frames_,       \* level -> held frame or None
    metadata_sinks_,      \* names of the metadata sinks still held (not yet released)
    writers_finalized,    \* levels whose writer has been finalized by finalize_array
    thread_pool_,         \* "running" | "stopped"
    pc,                   \* position of the caller thread
    pos,                  \* offset in the caller's stream of the current call's buffer
    nbytes,               \* append: argument nbytes
    bytes_written,        \* append: local bytes_written
    data,                 \* append: how far the local pointer `data` has been advanced
    bytes_to_copy,        \* append: local bytes_to_copy of the partial-frame branch
    ret,                  \* value returned by the last append call (-1: none)
    exc,                  \* which EXPECT threw in the last call ("" = none)
    cur,                  \* write_frame_: the span passed in, [src, data]
    n_bytes,              \* write_frame_: local n_bytes
    lvl,                  \* write_multiscale_frames_: loop index i
    cdata,                \* write_multiscale_frames_: the span `data`
    frame_width,          \* write_multiscale_frames_: local frame_width
    frame_height,         \* write_multiscale_frames_: local frame_height
    casc,                 \* history: what the cascade did for the current frame, per level
    nfail,                \* history: writer failures so far
    fin_ret,              \* result of finalize_stream: "none" | "true" | "false"
    wpc,                  \* create_writers_: position
    wsettings,            \* create_writers_: the settings under construction
    wconfig,              \* create_writers_: local config
    wwriters,             \* create_writers_: writers_ being built (their configs)
    mpc,                  \* make_data_file_sinks / make_dirs: position of the calling thread
    mret,                 \* their result: "none" | "true" | "false"
    file_paths,           \* make_file_sinks: per file, does the FileSink constructor throw?
    dirs_ok,              \* make_data_file_sinks: what make_dirs(parents) returned
    all_successful,       \* std::atomic<char> all_successful
    latch,                \* std::latch: its counter
    sinks,                \* the output vector: per file "null" | "sink"
    jobs,                 \* per pushed job: [pc, success]
    n_pushed,             \* how many jobs the loop has pushed
    dangling,             \* history: a job touched all_successful after the function returned
    dir_paths,            \* make_dirs: unique_paths in the order the loop visits them
    fs,                   \* the directories that exist in the file system
    fs_fail,              \* the directories the file system refuses to create
    acquire_sink,         \* metadata_sinks_["acquire.json"]: "none" | "null" | "open"
    acquire_bytes,        \* the bytes held by the acquire.json sink
    md_call,              \* the last write_custom_metadata call: [valid, str, overwrite, made, wrote]
    md_status,            \* the ZarrStatusCode it returned ("none" before the first call)
    md_written,           \* history: a call has written custom metadata successfully
    vpc,                  \* ZarrStream_s constructor: "off" | "start" | "created" | "rejected"
    vsettings,            \* the ZarrStreamSettings_s handed to the constructor
    dimensions_,          \* dimensions_ as committed by commit_settings_
    opc,                  \* make_ome_metadata_: position
    version_,             \* version_ (2 or 3)
    multiscales,          \* make_ome_metadata_: the json under construction
    scales,               \* make_ome_metadata_: local scales
    ome_i,                \* make_ome_metadata_: loop index i
    ome_k,                \* make_ome_metadata_: loop index k
    fin_i,                \* finalize_stream: loop index i over writers_
    fin_log,              \* history: the steps finalize_stream has taken, in order
    call_pc,              \* a free function under call: "off" | "start" | "done" | "threw"
    call_args,            \* the arguments of that call
    call_ret,             \* what the call returned or wrote through its references
    array_writer,         \* one ArrayWriter: its members and its state
    chunk_jobs,           \* compress+write jobs of the current flush not yet run
    store                 \* the chunk objects in the store

streamVars == <<settings, pat, error_, frame_buffer_, frame_buffer_offset_, writers_,
                scaled_frames_, metadata_sinks_, writers_finalized, thread_pool_,
                pc, pos, nbytes, bytes_written, data, bytes_to_copy, ret, exc, cur,
                n_bytes, lvl, cdata, frame_width, frame_height, casc, nfail,
                fin_ret>>
writerVars == <<wpc, wsettings, wconfig, wwriters>>
sinkVars == <<mpc, mret, file_paths, dirs_ok, all_successful, latch, sinks, jobs, n_pushed,
              dangling>>
dirVars == <<dir_paths, fs, fs_fail>>
metaVars == <<acquire_sink, acquire_bytes, md_call, md_status, md_written>>
validVars == <<vpc, vsettings, dimensions_>>
omeVars == <<opc, version_, multiscales, scales, ome_i, ome_k>>
finVars == <<fin_i, fin_log>>
callVars == <<call_pc, call_args, call_ret>>
arrVars == <<array_writer, chunk_jobs, store>>
\* everything the stream's own operations leave alone
otherVars == <<writerVars, sinkVars, dirVars, metaVars, validVars, omeVars, finVars, callVars, arrVars>>
\* everything create_writers_ leaves alone
restW == <<streamVars, sinkVars, dirVars, metaVars, validVars, omeVars, finVars, callVars, arrVars>>
\* what make_data_file_sinks and its jobs leave alone, the stream aside
restS == <<writerVars, dirVars, metaVars, validVars, omeVars, finVars, callVars, arrVars>>
\* what make_dirs and its jobs leave alone, the stream and the sinkVars aside
restD == <<writerVars, metaVars, validVars, omeVars, finVars, callVars, arrVars>>
vars == <<streamVars, otherVars>>

\* ------------------------------------------------ pyramid construction
\* ArrayWriterConfig restricted to what the level count depends on.
WriterConfig(s) ==
    [level_of_detail |-> 0, height |-> s.height, width |-> s.width,
     chunk_h |-> s.chunk_h, chunk_w |-> s.chunk_w]

\* zarr::downsample: halves the spatial extents (rounding up), keeps the chunk
\* sizes, and reports whether the downsampled configuration can be halved again.
downsample(config) ==
    LET h == (config.height + (config.height % 2)) \div 2
        w == (config.width + (config.width % 2)) \div 2
    IN  [config |-> [config EXCEPT !.level_of_detail = @ + 1,
                                   !.height = h, !.width = w],
         more   |-> (h \div 2 >= config.chunk_h /\ w \div 2 >= config.chunk_w)]

\* the while (do_downsample) loop of create_writers_
RECURSIVE downsample_loop(_, _)
downsample_loop(config, ws) ==
    LET d == downsample(config)
        pushed == Append(ws, d.config)
    IN  IF d.more THEN downsample_loop(d.config, pushed) ELSE pushed

create_writers_(s) ==
    LET config == WriterConfig(s)
    IN  IF s.multiscale THEN downsample_loop(config, <<config>>) ELSE <<config>>

\* ------------------------------------------------------- caller's input
\* byte i (0-based) of the stream the caller appends, for input pattern p
XByte(p, i) == ((p + 2) * i + p * (i \div 4) + 1) % 256

\* the n bytes of the caller's stream starting at offset from
Input(p, from, n) == [k \in 1..n |-> XByte(p, from + k - 1)]

\* ------------------------------------------------------- pure functions
\* zarr::bytes_of_frame for uint8: width * height * sizeof(T)
bytes_of_frame(s) == s.width * s.height

\* memcpy that forgets the destination offset (always writes at the front)
memcpy_from_start(dst, off, src) ==
    [k \in 1..Len(dst) |-> IF k <= Len(src) THEN src[k] ELSE dst[k]]

\* memcpy(dst + off, src, Len(src))
memcpy(dst, off, src) ==
    [k \in 1..Len(dst) |-> IF off < k /\ k <= off + Len(src) THEN src[k - off] ELSE dst[k]]

\* a padded size that forgets the odd row or column
padded_none(n) == n

\* w_pad and h_pad: width + (width % downscale)
padded(n) == n + (n % 2)

\* the source indices scale_image reads for the output element of (row, col):
\* here, right, down, diag
block_indices(width, height, row, col) ==
    LET src_idx == row * width + col
        pad_height == IF row = height - 1 /\ height # padded(height) THEN 1 ELSE 0
        pad_width == IF col = width - 1 /\ width # padded(width) THEN 1 ELSE 0
    IN  <<src_idx,
          src_idx + (1 - pad_width),
          src_idx + width * (1 - pad_height),
          src_idx + width * (1 - pad_height) + (1 - pad_width)>>

\* scale_image<T>: 2x2 box average with replication of the last row / column;
\* returns the downscaled frame and the updated width and height.
scale_image(src, width, height) ==
    LET downscale == 2
        w_pad == padded(width)
        h_pad == padded(height)
        n_cols == w_pad \div 2     \* iterations of the col loop
        n_rows == h_pad \div 2     \* iterations of the row loop
        px(dst_idx) ==
            LET at == block_indices(width, height, downscale * (dst_idx \div n_cols),
                                    downscale * (dst_idx % n_cols))
            IN  TruncDiv(src[at[1] + 1] + src[at[2] + 1] + src[at[3] + 1] + src[at[4] + 1], 4)
    IN  [dst    |-> [k \in 1..(n_rows * n_cols) |-> px(k - 1)],
         width  |-> w_pad \div 2,
         height |-> h_pad \div 2]

\* average_two_frames<uint8_t>: dst[i] = static_cast<T>(0.5 * (dst[i] + src[i])),
\* written into dst in place; the uint8 operands are promoted to int, so the
\* sum is exact.
average_two_frames(dst, src) ==
    [k \in 1..Len(dst) |-> TruncDiv(dst[k] + src[k], 2)]

\* ZarrStream_s::set_error_: the new value of error_
set_error_(msg) == msg

\* ------------------------------------------------------------------ Init
\* settings the stream model is run on: single scale, a two-level and a
\* three-level pyramid (odd extents exercise the padding of scale_image)
StreamSettings ==
    { [multiscale |-> FALSE, height |-> 2, width |-> 2, chunk_h |-> 1, chunk_w |-> 1],
      [multiscale |-> TRUE,  height |-> 2, width |-> 2, chunk_h |-> 1, chunk_w |-> 1],
      [multiscale |-> TRUE,  height |-> 3, width |-> 3, chunk_h |-> 1, chunk_w |-> 1] }

Patterns == {1}

NoSettings == [multiscale |-> FALSE, height |-> 1, width |-> 1, chunk_h |-> 1, chunk_w |-> 1]

nW == Len(writers_)            \* writers_.size()
B == Len(frame_buffer_)        \* frame_buffer_.size()

\* local variables of a call that is not running
IdleLocals ==
    /\ bytes_written = 0 /\ data = 0 /\ bytes_to_copy = 0
    /\ cur = None /\ n_bytes = 0 /\ lvl = 0 /\ cdata = None
    /\ frame_width = 0 /\ frame_height = 0

WriterIdle ==
    /\ wpc = "off" /\ wsettings = NoSettings
    /\ wconfig = WriterConfig(NoSettings) /\ wwriters = <<>>

\* no make_data_file_sinks call is modelled
SinksOff ==
    /\ mpc = "off" /\ mret = "none" /\ file_paths = <<>> /\ dirs_ok = TRUE
    /\ all_successful = 1 /\ latch = 0 /\ sinks = <<>> /\ jobs = <<>>
    /\ n_pushed = 0 /\ dangling = FALSE

\* no make_dirs call is modelled
DirsOff == dir_paths = <<>> /\ fs = {} /\ fs_fail = {}

\* record of a write_custom_metadata call: valid: the text passed validation;
\* str: the document dumped from it; made / wrote: make_file_sink / sink->write
\* did not fail in this call
NoCall == [valid |-> FALSE, str |-> <<>>, overwrite |-> FALSE, made |-> TRUE, wrote |-> TRUE]

\* no write_custom_metadata call is modelled
MetaOff ==
    /\ acquire_sink = "none" /\ acquire_bytes = <<>>
    /\ md_call = NoCall /\ md_status = "none" /\ md_written = FALSE

NoStreamSettings == [version |-> 2, data_type |-> 0, multiscale |-> FALSE, dimensions |-> <<>>]

\* no constructor call is modelled
ValidOff == vpc = "off" /\ vsettings = NoStreamSettings /\ dimensions_ = <<>>

NoJson == [axes |-> <<>>, datasets |-> <<>>, type |-> "", version |-> ""]

\* no make_ome_metadata_ call is modelled
OmeOff ==
    /\ opc = "off" /\ version_ = 2 /\ multiscales = NoJson /\ scales = <<>>
    /\ ome_i = 0 /\ ome_k = 0

\* no step-by-step finalize_stream call is modelled
FinOff == fin_i = 0 /\ fin_log = <<>>

\* no free function is under call
CallOff == call_pc = "off" /\ call_args = <<>> /\ call_ret = <<>>

\* no ArrayWriter is modelled
ArrOff == array_writer = <<>> /\ chunk_jobs = {} /\ store = {}

\* the stream as ZarrStream_s::ZarrStream_s leaves it
Init ==
    /\ settings \in StreamSettings
    /\ pat \in Patterns
    /\ error_ = ""
    /\ frame_buffer_ = [k \in 1..bytes_of_frame(settings) |-> 0]
    /\ frame_buffer_offset_ = 0
    /\ writers_ = [l \in 1..Len(create_writers_(settings)) |-> <<>>]
    /\ scaled_frames_ = IF settings.multiscale
                          THEN [l \in 1..(Len(create_writers_(settings)) - 1) |-> None]
                          ELSE <<>>
    /\ metadata_sinks_ = {".zattrs", ".zgroup"}
    /\ writers_finalized = {}
    /\ thread_pool_ = "running"
    /\ pc = "idle" /\ pos = 0 /\ nbytes = 0 /\ ret = -1 /\ exc = ""
    /\ IdleLocals
    /\ casc = <<>> /\ nfail = 0 /\ fin_ret = "none"
    /\ WriterIdle
    /\ SinksOff /\ DirsOff /\ MetaOff /\ ValidOff /\ OmeOff /\ FinOff /\ CallOff /\ ArrOff

\* ---------------------------------------------------------------- append
\* an append that never looks at error_
append_guard_off(err) == TRUE

\* EXPECT(error_.empty(), "Cannot append data: ", ...): may the call proceed?
append_guard(err) == err = ""

\* where the caller's next buffer starts: after the bytes the last call
\* returned; after a throw the caller starts again at the buffer that failed.
CallerNext ==
    CASE pc = "idle"     -> {pos}
      [] pc = "returned" -> {pos + ret}
      [] pc = "threw"    -> {pos}
      [] OTHER           -> {}

\* the loop condition off by one
loop_cond_off_by_one(bw, n) == bw + 1 < n

\* while (bytes_written < nbytes) ... return bytes_written;
loop_cond(bw, n) == bw < n

\* the call leaves by an exception: its argument and locals are gone
Throw(reason) ==
    /\ pc' = "threw" /\ exc' = reason /\ ret' = -1 /\ nbytes' = 0
    /\ bytes_written' = 0 /\ data' = 0 /\ bytes_to_copy' = 0
    /\ cur' = None /\ n_bytes' = 0 /\ lvl' = 0 /\ cdata' = None
    /\ frame_width' = 0 /\ frame_height' = 0

\* the call returns r: locals are gone
Return(r) ==
    /\ pc' = "returned" /\ ret' = r /\ exc' = "" /\ nbytes' = nbytes
    /\ bytes_written' = 0 /\ data' = 0 /\ bytes_to_copy' = 0
    /\ cur' = None /\ n_bytes' = 0 /\ lvl' = 0 /\ cdata' = None
    /\ frame_width' = 0 /\ frame_height' = 0

\* ZarrStream::append, entry: the error check and the nbytes == 0 shortcut;
\* the caller's stream is at most limit bytes long
append_within(n, limit) ==
    /\ pc \in {"idle", "returned", "threw"}
    /\ \E start \in CallerNext :
         /\ start + n <= limit
         /\ pos' = start
    /\ IF ~append_guard(error_)
         THEN Throw("Cannot append data")
         ELSE IF n = 0
                THEN /\ pc' = "returned" /\ ret' = 0 /\ exc' = "" /\ nbytes' = n
                     /\ UNCHANGED <<bytes_written, data, bytes_to_copy, cur, n_bytes,
                                    lvl, cdata, frame_width, frame_height>>
                ELSE /\ pc' = "loop" /\ ret' = -1 /\ exc' = "" /\ nbytes' = n
                     /\ UNCHANGED <<bytes_written, data, bytes_to_copy, cur, n_bytes,
                                    lvl, cdata, frame_width, frame_height>>
    /\ UNCHANGED <<settings, pat, error_, frame_buffer_, frame_buffer_offset_, writers_,
                   scaled_frames_, metadata_sinks_, writers_finalized, thread_pool_,
                   casc, nfail, fin_ret, otherVars>>

\* an append call of the stream model: the input is at most MaxFrames frames
append(n) == append_within(n, MaxFrames * B)

\* ZarrStream::append, one iteration of the while loop up to the call of
\* write_frame_ (if the iteration makes one)
append_loop ==
    /\ pc = "loop"
    /\ LET bytes_remaining == nbytes - bytes_written
       IN  IF frame_buffer_offset_ > 0
             THEN \* add to / finish a partial frame
                  LET btc == Min(B - frame_buffer_offset_, bytes_remaining)
                      buf == memcpy(frame_buffer_, frame_buffer_offset_,
                                    Input(pat, pos + data + bytes_written, btc))
                  IN  /\ frame_buffer_' = buf
                      /\ frame_buffer_offset_' = frame_buffer_offset_ + btc
                      /\ bytes_to_copy' = btc
                      /\ IF frame_buffer_offset_ + btc = B
                           THEN /\ pc' = "write_frame"
                                /\ cur' = [src |-> "buffer", data |-> buf]
                                /\ bytes_written' = bytes_written + btc
                                /\ UNCHANGED <<ret, exc, data, n_bytes, lvl, cdata,
                                               frame_width, frame_height>>
                           ELSE IF loop_cond(bytes_written + btc, nbytes)
                                  THEN /\ pc' = "loop"
                                       /\ bytes_written' = bytes_written + btc
                                       /\ UNCHANGED <<ret, exc, data, cur, n_bytes, lvl,
                                                      cdata, frame_width, frame_height>>
                                  ELSE Return(bytes_written + btc)
             ELSE IF bytes_remaining < B
                    THEN \* begin partial frame
                         /\ frame_buffer_' = memcpy(frame_buffer_, 0,
                                                    Input(pat, pos + data, bytes_remaining))
                         /\ frame_buffer_offset_' = bytes_remaining
                         /\ IF loop_cond(bytes_written + bytes_remaining, nbytes)
                              THEN /\ pc' = "loop"
                                   /\ bytes_written' = bytes_written + bytes_remaining
                                   /\ UNCHANGED <<ret, exc, data, bytes_to_copy, cur, n_bytes,
                                                  lvl, cdata, frame_width, frame_height>>
                              ELSE Return(bytes_written + bytes_remaining)
                    ELSE \* at least one full frame
                         /\ pc' = "write_frame"
                         /\ cur' = [src |-> "input", data |-> Input(pat, pos + data, B)]
                         /\ UNCHANGED <<frame_buffer_, frame_buffer_offset_, bytes_written,
                                        bytes_to_copy, ret, exc, data, n_bytes, lvl, cdata,
                                        frame_width, frame_height>>
    /\ UNCHANGED <<settings, pat, error_, writers_, scaled_frames_, metadata_sinks_,
                   writers_finalized, thread_pool_, pos, nbytes, casc, nfail,
                   fin_ret, otherVars>>

\* ArrayWriter::write_frame as the orchestrator sees it: the whole frame is
\* written, or 0 (short write) after a failure
WriteResults(size) == {0, size}

\* a write_frame_ that never looks at what writer 0 returned
after_writer0_unchecked(written, full_frame, size) == "cascade"

\* write_frame_ after writers_[0]->write_frame(data) returned `written` (n_bytes):
\* EXPECT(n_bytes == bytes_of_full_frame, ""), then the short-write return,
\* else write_multiscale_frames_(data)
after_writer0(written, full_frame, size) ==
    IF written # full_frame THEN "throw"
    ELSE IF written # size THEN "error"
    ELSE "cascade"

\* ZarrStream_s::write_frame_: hand the frame to writer 0, then enter the cascade
write_frame_ ==
    /\ pc = "write_frame"
    /\ \E r \in WriteResults(Len(cur.data)) :
         /\ (r # Len(cur.data)) => nfail < MaxFail
         /\ nfail' = IF r # Len(cur.data) THEN nfail + 1 ELSE nfail
         /\ writers_' = [writers_ EXCEPT ![1] =
                           Append(@, [frame |-> cur.data, ok |-> (r = Len(cur.data))])]
         /\ casc' = <<>>
         /\ IF after_writer0(r, B, Len(cur.data)) = "throw"
              THEN /\ Throw("write_frame_")
                   /\ UNCHANGED error_
              ELSE IF after_writer0(r, B, Len(cur.data)) = "error"
                     THEN /\ error_' = set_error_("Incomplete write to full-resolution array.")
                          /\ pc' = "after_write" /\ n_bytes' = r
                          /\ UNCHANGED <<ret, exc, nbytes, bytes_written, data,
                                         bytes_to_copy, cur, lvl, cdata, frame_width,
                                         frame_height>>
                     ELSE \* write_multiscale_frames_(data)
                          /\ pc' = "cascade" /\ n_bytes' = r
                          /\ lvl' = 1 /\ cdata' = cur.data
                          /\ frame_width' = settings.width
                          /\ frame_height' = settings.height
                          /\ UNCHANGED <<error_, ret, exc, nbytes, bytes_written, data,
                                         bytes_to_copy, cur>>
    /\ UNCHANGED <<settings, pat, frame_buffer_, frame_buffer_offset_, scaled_frames_,
                   metadata_sinks_, writers_finalized, thread_pool_, pos, fin_ret, otherVars>>

\* a cascade that forgets to move `data` on to the level it just wrote
next_data_stale(old, dst, i, n_writers) == old

\* "set up for next iteration": the span the next level is scaled from
next_data(old, dst, i, n_writers) == IF i + 1 < n_writers THEN dst ELSE old

\* a cascade without the break of the empty-slot branch
cascade_never_breaks(slot, i, n_writers) == i + 1 < n_writers

\* does the for loop of the cascade go on after level i?  An occupied slot
\* lets it run to the next level, an empty one ends it (break).
cascade_goes_on(slot, i, n_writers) == slot # None /\ i + 1 < n_writers

\* a cascade that forgets to reset the slot after writing the pair
slot_kept(slot) == slot

\* the slot of a level after a pair was written: scaled_frames_[i].reset()
slot_after_write(slot) == None

\* a cascade that drops the downsampled frame instead of holding it
slot_never_held(dst) == None

\* the slot of a level that had no held frame: scaled_frames_[i] = dst
slot_after_hold(dst) == dst

\* history record of one level of the cascade, read off the step itself
CascRec(fdown) ==
    [level |-> lvl,
     fdown |-> fdown,
     held  |-> scaled_frames_[lvl],
     slot  |-> scaled_frames_'[lvl],
     wrote |-> IF Len(writers_'[lvl + 1]) > Len(writers_[lvl + 1])
                 THEN writers_'[lvl + 1][Len(writers_'[lvl + 1])].frame ELSE None,
     ok    |-> /\ Len(writers_'[lvl + 1]) > Len(writers_[lvl + 1])
               /\ writers_'[lvl + 1][Len(writers_'[lvl + 1])].ok,
     fed   |-> IF pc' = "cascade" THEN cdata' ELSE None,
     others |-> [l \in (1..(nW - 1)) \ {lvl} |->
                   /\ scaled_frames_'[l] = scaled_frames_[l]
                   /\ writers_'[l + 1] = writers_[l + 1]],
     stop  |-> pc' # "cascade"]

\* ZarrStream_s::write_multiscale_frames_: the early return, or one iteration
\* of the loop over the downsampled levels
write_multiscale_frames_ ==
    /\ pc = "cascade"
    /\ IF ~settings.multiscale \/ ~(lvl < nW)
         THEN /\ pc' = "after_write"
              /\ UNCHANGED <<writers_, scaled_frames_, lvl, cdata, frame_width,
                             frame_height, casc, nfail, ret, exc, nbytes, bytes_written,
                             data, bytes_to_copy, cur, n_bytes>>
         ELSE LET s == scale_image(cdata, frame_width, frame_height)
              IN  IF scaled_frames_[lvl] # None
                    THEN IF Len(s.dst) # Len(scaled_frames_[lvl])
                           THEN \* EXPECT(bytes_of_dst == bytes_of_src) in average_two_frames
                                /\ Throw("average_two_frames")
                                /\ UNCHANGED <<writers_, scaled_frames_, casc, nfail>>
                           ELSE LET frame_data == average_two_frames(s.dst, scaled_frames_[lvl])
                                IN  \E r \in WriteResults(Len(frame_data)) :
                                      /\ (r = 0) => nfail < MaxFail
                                      /\ nfail' = IF r = 0 THEN nfail + 1 ELSE nfail
                                      /\ writers_' = [writers_ EXCEPT ![lvl + 1] =
                                            Append(@, [frame |-> frame_data, ok |-> (r # 0)])]
                                      /\ IF r = 0   \* EXPECT(writers_[i]->write_frame(...))
                                           THEN /\ Throw("Failed to write frame to writer")
                                                /\ UNCHANGED scaled_frames_
                                           ELSE /\ scaled_frames_' = [scaled_frames_ EXCEPT
                                                      ![lvl] = slot_after_write(@)]
                                                /\ cdata' = next_data(cdata, frame_data, lvl, nW)
                                                /\ frame_width' = s.width
                                                /\ frame_height' = s.height
                                                /\ lvl' = lvl + 1
                                                /\ pc' = IF cascade_goes_on(scaled_frames_[lvl], lvl, nW)
                                                           THEN "cascade" ELSE "after_write"
                                                /\ UNCHANGED <<ret, exc, nbytes, bytes_written,
                                                               data, bytes_to_copy, cur,
                                                               n_bytes>>
                                      /\ casc' = Append(casc, CascRec(s.dst))
                    ELSE /\ scaled_frames_' = [scaled_frames_ EXCEPT
                                                   ![lvl] = slot_after_hold(s.dst)]
                         /\ pc' = IF cascade_goes_on(scaled_frames_[lvl], lvl, nW)
                                    THEN "cascade" ELSE "after_write"
                         /\ lvl' = IF cascade_goes_on(scaled_frames_[lvl], lvl, nW)
                                     THEN lvl + 1 ELSE lvl
                         /\ frame_width' = s.width
                         /\ frame_height' = s.height
                         /\ UNCHANGED <<writers_, cdata, nfail, ret, exc, nbytes,
                                        bytes_written, data, bytes_to_copy, cur, n_bytes>>
                         /\ casc' = Append(casc, CascRec(s.dst))
    /\ UNCHANGED <<settings, pat, error_, frame_buffer_, frame_buffer_offset_,
                   metadata_sinks_, writers_finalized, thread_pool_, pos, fin_ret, otherVars>>

\* an append that forgets to empty the frame buffer after flushing it
offset_kept(off) == off

\* frame_buffer_offset_ = 0; after write_frame_(frame_buffer_) succeeded
offset_after_flush(off) == 0

\* ZarrStream::append, after write_frame_ returned: break on a short write,
\* else account for the frame and go round the loop
append_after_write ==
    /\ pc = "after_write"
    /\ IF n_bytes < B
         THEN \* break; return bytes_written
              /\ Return(bytes_written)
              /\ UNCHANGED frame_buffer_offset_
         ELSE LET bw == IF cur.src = "buffer" THEN bytes_written ELSE bytes_written + B
                  d  == IF cur.src = "buffer" THEN data + bytes_to_copy ELSE data + B
              IN  /\ frame_buffer_offset_' =
                        IF cur.src = "buffer" THEN offset_after_flush(frame_buffer_offset_)
                        ELSE frame_buffer_offset_
                  /\ IF loop_cond(bw, nbytes)
                       THEN /\ pc' = "loop" /\ bytes_written' = bw /\ data' = d
                            /\ cur' = None /\ n_bytes' = 0 /\ lvl' = 0 /\ cdata' = None
                            /\ frame_width' = 0 /\ frame_height' = 0
                            /\ UNCHANGED <<ret, exc, bytes_to_copy>>
                       ELSE Return(bw)
    /\ UNCHANGED <<settings, pat, error_, frame_buffer_, writers_, scaled_frames_,
                   metadata_sinks_, writers_finalized, thread_pool_, pos, nbytes, casc,
                   nfail, fin_ret, otherVars>>

\* ------------------------------------------------------------ thread pool
PoolErrors == {"job A failed", "job B failed"}

\* the error callback of start_thread_pool_, run by a pool thread when a job
\* fails: [this](const std::string& err) { this->set_error_(err); }
pool_job_error(err) ==
    /\ thread_pool_ = "running"
    /\ error_' = set_error_(err)
    /\ UNCHANGED <<settings, pat, frame_buffer_, frame_buffer_offset_, writers_,
                   scaled_frames_, metadata_sinks_, writers_finalized, thread_pool_,
                   pc, pos, nbytes, bytes_written, data, bytes_to_copy, ret, exc, cur,
                   n_bytes, lvl, cdata, frame_width, frame_height, casc, nfail,
                   fin_ret, otherVars>>

\* --------------------------------------------------------------- finalize
\* finalize_stream: group metadata, then every metadata sink, then every
\* writer, then the pool; the first failing step returns false at once.
\* gm_ok: write_group_metadata_ succeeds; bad_sink: the sink whose flush fails
\* ("" = none), done: the sinks the unordered_map iteration reached before it;
\* bad_writer: the level whose finalize_array fails (-1 = none).
finalize_stream(gm_ok, bad_sink, done, bad_writer) ==
    /\ pc \in {"idle", "returned", "threw"}
    /\ pc' = "finalized"
    /\ IF ~gm_ok
         THEN /\ error_' = set_error_("Error writing group metadata")
              /\ fin_ret' = "false"
              /\ UNCHANGED <<metadata_sinks_, writers_finalized, thread_pool_>>
         ELSE IF bad_sink # ""
                THEN /\ metadata_sinks_' = metadata_sinks_ \ done
                     /\ fin_ret' = "false"
                     /\ UNCHANGED <<error_, writers_finalized, thread_pool_>>
                ELSE /\ metadata_sinks_' = {}
                     /\ IF bad_writer # -1
                          THEN /\ writers_finalized' = 0..(bad_writer - 1)
                               /\ fin_ret' = "false"
                               /\ UNCHANGED <<error_, thread_pool_>>
                          ELSE /\ writers_finalized' = 0..(nW - 1)
                               /\ thread_pool_' = "stopped"   \* await_stop()
                               /\ fin_ret' = "true"
                               /\ UNCHANGED error_
    /\ pos' = 0 /\ nbytes' = 0 /\ ret' = -1 /\ exc' = ""   \* no append call is pending
    /\ UNCHANGED <<settings, pat, frame_buffer_, frame_buffer_offset_, writers_,
                   scaled_frames_, bytes_written, data, bytes_to_copy,
                   cur, n_bytes, lvl, cdata, frame_width, frame_height,
                   casc, nfail, otherVars>>

\* ------------------------------------------------------------------- Spec
AppendSizes == 0..MaxAppend

Next ==
    \/ \E n \in AppendSizes : append(n)
    \/ append_loop
    \/ write_frame_
    \/ write_multiscale_frames_
    \/ append_after_write
    \/ \E err \in PoolErrors : pool_job_error(err)
    \/ finalize_stream(FALSE, "", metadata_sinks_, -1)
    \/ \E bad_sink \in metadata_sinks_ :
         \E done \in SUBSET (metadata_sinks_ \ {bad_sink}) :
            finalize_stream(TRUE, bad_sink, done, -1)
    \/ \E bad_writer \in -1..(nW - 1) :
         finalize_stream(TRUE, "", metadata_sinks_, bad_writer)

Spec == Init /\ [][Next]_vars

\* ------------------------------------------- the cascade over whole frames
\* a multiscale stream fed whole frames, one or two per append call, long
\* enough for the deepest level to pair two arrivals
InitC ==
    /\ Init
    /\ settings.multiscale

NextC ==
    \/ \E k \in 1..2 : append_within(k * B, MaxCascadeFrames * B)
    \/ append_loop
    \/ write_frame_
    \/ write_multiscale_frames_
    \/ append_after_write

SpecC == InitC /\ [][NextC]_vars

\* ------------------------------------------- create_writers_, step by step
\* settings that pass validation and satisfy chunk_px <= extent_px
ValidSettings ==
    { s \in [multiscale : BOOLEAN, height : 1..MaxExtent, width : 1..MaxExtent,
             chunk_h : 1..MaxExtent, chunk_w : 1..MaxExtent] :
        s.chunk_h <= s.height /\ s.chunk_w <= s.width }

\* the stream part of the state while only create_writers_ is modelled
StreamOff ==
    /\ settings = NoSettings /\ pat = 1 /\ error_ = ""
    /\ frame_buffer_ = <<>> /\ frame_buffer_offset_ = 0
    /\ writers_ = <<>> /\ scaled_frames_ = <<>>
    /\ writers_finalized = {}
    /\ pc = "off" /\ pos = 0 /\ nbytes = 0 /\ ret = -1 /\ exc = ""
    /\ IdleLocals
    /\ casc = <<>> /\ nfail = 0 /\ fin_ret = "none"

InitW ==
    /\ StreamOff /\ thread_pool_ = "running" /\ metadata_sinks_ = {}
    /\ wpc = "start"
    /\ wsettings \in ValidSettings
    /\ wconfig = WriterConfig(wsettings)
    /\ wwriters = <<>>
    /\ SinksOff /\ DirsOff /\ MetaOff /\ ValidOff /\ OmeOff /\ FinOff /\ CallOff /\ ArrOff

\* create_writers_: writers_.clear() and the full-resolution writer
create_writers_begin ==
    /\ wpc = "start"
    /\ wwriters' = <<wconfig>>
    /\ wpc' = IF wsettings.multiscale THEN "loop" ELSE "done"
    /\ UNCHANGED <<wsettings, wconfig, restW>>

\* create_writers_: one iteration of while (do_downsample)
create_writers_loop ==
    /\ wpc = "loop"
    /\ LET d == downsample(wconfig)
       IN  /\ wwriters' = Append(wwriters, d.config)
           /\ wconfig' = d.config
           /\ wpc' = IF d.more THEN "loop" ELSE "done"
    /\ UNCHANGED <<wsettings, restW>>

NextW == create_writers_begin \/ create_writers_loop

SpecW == InitW /\ [][NextW]_vars

\* ------------------------------------- make_data_file_sinks, step by step
\* the stream members other than error_ and thread_pool_; the file-sink jobs
\* touch the stream only through the pool's error callback
streamIdleVars == <<settings, pat, frame_buffer_, frame_buffer_offset_, writers_,
                    scaled_frames_, metadata_sinks_, writers_finalized,
                    pc, pos, nbytes, bytes_written, data, bytes_to_copy, ret, exc, cur,
                    n_bytes, lvl, cdata, frame_width, frame_height, casc, nfail,
                    fin_ret>>

n_files == Len(file_paths)

\* per path: TRUE when std::make_unique<FileSink>(filename) throws
FilePathSets == UNION { [1..n -> BOOLEAN] : n \in 0..MaxFiles }

InitS ==
    /\ StreamOff /\ thread_pool_ \in {"running", "stopped"} /\ metadata_sinks_ = {}
    /\ WriterIdle
    /\ mpc = "start" /\ mret = "none"
    /\ file_paths \in FilePathSets
    /\ dirs_ok \in BOOLEAN
    /\ all_successful = 1 /\ latch = 0 /\ sinks = <<>> /\ jobs = <<>>
    /\ n_pushed = 0 /\ dangling = FALSE
    /\ DirsOff /\ MetaOff /\ ValidOff /\ OmeOff /\ FinOff /\ CallOff /\ ArrOff

\* zarr::make_data_file_sinks up to the push loop of make_file_sinks: a failed
\* make_dirs is caught and gives false, an empty path list gives true
make_data_file_sinks ==
    /\ mpc = "start"
    /\ IF ~dirs_ok
         THEN /\ mret' = "false" /\ mpc' = "done"
              /\ UNCHANGED <<all_successful, latch, sinks>>
         ELSE IF n_files = 0
                THEN /\ mret' = "true" /\ mpc' = "done"
                     /\ UNCHANGED <<all_successful, latch, sinks>>
                ELSE /\ all_successful' = 1
                     /\ sinks' = [i \in 1..n_files |-> "null"]
                     /\ latch' = n_files
                     /\ mpc' = "push"
                     /\ UNCHANGED mret
    /\ UNCHANGED <<file_paths, dirs_ok, jobs, n_pushed, dangling, streamVars, restS>>

\* ThreadPool::push_job as its callers see it: a pool that is not running
\* takes no job
push_job_accepts(pool) == pool = "running"

\* make_file_sinks: one iteration of the push loop, EXPECT(push_job(...))
make_file_sinks_push ==
    /\ mpc = "push"
    /\ IF push_job_accepts(thread_pool_)
         THEN /\ jobs' = Append(jobs, [pc |-> "queued", success |-> FALSE])
              /\ n_pushed' = n_pushed + 1
              /\ mpc' = IF n_pushed + 1 < n_files THEN "push" ELSE "wait"
         ELSE /\ mpc' = "threw"
              /\ UNCHANGED <<jobs, n_pushed>>
    /\ UNCHANGED <<mret, file_paths, dirs_ok, all_successful, latch, sinks, dangling,
                   streamVars, restS>>

\* make_file_sinks: latch.wait(); return (bool)all_successful;
make_file_sinks_wait ==
    /\ mpc = "wait"
    /\ latch = 0
    /\ mret' = IF all_successful = 1 THEN "true" ELSE "false"
    /\ mpc' = "done"
    /\ UNCHANGED <<file_paths, dirs_ok, all_successful, latch, sinks, jobs, n_pushed,
                   dangling, streamVars, restS>>

\* the job of file i: if (all_successful) { *psink = make_unique<FileSink> }
job_creates(flag) == flag = 1

\* the job of file i, the try block: the sink is created only while
\* all_successful is still set; success stays false only if the constructor throws
job_try(i) ==
    /\ jobs[i].pc = "queued"
    /\ IF job_creates(all_successful)
         THEN IF file_paths[i]
                THEN /\ jobs' = [jobs EXCEPT ![i] = [pc |-> "tried", success |-> FALSE]]
                     /\ UNCHANGED sinks
                ELSE /\ jobs' = [jobs EXCEPT ![i] = [pc |-> "tried", success |-> TRUE]]
                     /\ sinks' = [sinks EXCEPT ![i] = "sink"]
         ELSE /\ jobs' = [jobs EXCEPT ![i] = [pc |-> "tried", success |-> TRUE]]
              /\ UNCHANGED sinks
    /\ UNCHANGED <<mpc, mret, file_paths, dirs_ok, all_successful, latch, n_pushed,
                   dangling, streamVars, restS>>

\* the job of file i: latch.count_down();
job_count_down(i) ==
    /\ jobs[i].pc = "tried"
    /\ latch' = latch - 1
    /\ jobs' = [jobs EXCEPT ![i].pc = "counted"]
    /\ UNCHANGED <<mpc, mret, file_paths, dirs_ok, all_successful, sinks, n_pushed,
                   dangling, streamVars, restS>>

\* the job of file i: all_successful.fetch_and((char)success); return success;
\* a job that returns false has its err handed to the pool's error callback,
\* which is the stream's set_error_.  all_successful is a local of
\* make_file_sinks: touching it after that function returned is recorded.
job_fetch_and(i) ==
    /\ jobs[i].pc = "counted"
    /\ all_successful' = IF jobs[i].success THEN all_successful ELSE 0
    /\ dangling' = (dangling \/ mpc = "done")
    /\ jobs' = [jobs EXCEPT ![i].pc = "done"]
    /\ error_' = IF jobs[i].success THEN error_ ELSE set_error_("Failed to create file")
    /\ UNCHANGED <<mpc, mret, file_paths, dirs_ok, latch, sinks, n_pushed,
                   streamIdleVars, thread_pool_, restS>>

NextS ==
    \/ make_data_file_sinks
    \/ make_file_sinks_push
    \/ make_file_sinks_wait
    \/ \E i \in 1..Len(jobs) : job_try(i)
    \/ \E i \in 1..Len(jobs) : job_count_down(i)
    \/ \E i \in 1..Len(jobs) : job_fetch_and(i)

SpecS == InitS /\ [][NextS]_vars

\* ---------------------------------------------------- make_dirs, step by step
\* the directories of the modelled file system: a, its child a/b, and c
DirUniverse == { <<"a">>, <<"a", "b">>, <<"c">> }

\* p and the directories above it
WithAncestors(p) == { SubSeq(p, 1, k) : k \in 1..Len(p) }

\* sequences of distinct directories, at most MaxDirs long: unique_paths in the
\* order the unordered_set happens to be iterated
DirPathLists ==
    { q \in UNION { [1..n -> DirUniverse] : n \in 0..MaxDirs } :
        \A i, j \in 1..Len(q) : i # j => q[i] # q[j] }

InitD ==
    /\ StreamOff /\ thread_pool_ \in {"running", "stopped"} /\ metadata_sinks_ = {}
    /\ WriterIdle
    /\ mpc = "start_dirs" /\ mret = "none"
    /\ file_paths = <<>> /\ dirs_ok = TRUE /\ sinks = <<>>
    /\ all_successful = 1 /\ latch = 0 /\ jobs = <<>>
    /\ n_pushed = 0 /\ dangling = FALSE
    /\ dir_paths \in DirPathLists
    /\ fs \in { {}, { <<"a">> } }
    /\ fs_fail \in { {}, { <<"c">> } }
    /\ MetaOff /\ ValidOff /\ OmeOff /\ FinOff /\ CallOff /\ ArrOff

\* zarr::make_dirs up to the push loop
make_dirs ==
    /\ mpc = "start_dirs"
    /\ IF Len(dir_paths) = 0
         THEN /\ mret' = "true" /\ mpc' = "done"
              /\ UNCHANGED <<all_successful, latch>>
         ELSE /\ all_successful' = 1
              /\ latch' = Len(dir_paths)
              /\ mpc' = "push_dirs"
              /\ UNCHANGED mret
    /\ UNCHANGED <<file_paths, dirs_ok, sinks, jobs, n_pushed, dangling, dirVars,
                   streamVars, restD>>

\* make_dirs: one iteration of the loop over unique_paths;
\* if (!thread_pool->push_job(std::move(job))) return false;
make_dirs_push ==
    /\ mpc = "push_dirs"
    /\ IF push_job_accepts(thread_pool_)
         THEN /\ jobs' = Append(jobs, [pc |-> "queued", success |-> TRUE])
              /\ n_pushed' = n_pushed + 1
              /\ mpc' = IF n_pushed + 1 < Len(dir_paths) THEN "push_dirs" ELSE "wait_dirs"
              /\ UNCHANGED mret
         ELSE /\ mret' = "false" /\ mpc' = "done"
              /\ UNCHANGED <<jobs, n_pushed>>
    /\ UNCHANGED <<file_paths, dirs_ok, all_successful, latch, sinks, dangling, dirVars,
                   streamVars, restD>>

\* make_dirs: latch.wait(); return static_cast<bool>(all_successful);
make_dirs_wait ==
    /\ mpc = "wait_dirs"
    /\ latch = 0
    /\ mret' = IF all_successful = 1 THEN "true" ELSE "false"
    /\ mpc' = "done"
    /\ UNCHANGED <<file_paths, dirs_ok, all_successful, latch, sinks, jobs, n_pushed,
                   dangling, dirVars, streamVars, restD>>

\* the job of directory i: if (fs::is_directory(path)) { latch.count_down();
\* return success; }
dir_job_is_directory(i) ==
    /\ jobs[i].pc = "queued"
    /\ IF dir_paths[i] \in fs
         THEN /\ latch' = latch - 1
              /\ jobs' = [jobs EXCEPT ![i].pc = "done"]
         ELSE /\ jobs' = [jobs EXCEPT ![i].pc = "create"]
              /\ UNCHANGED latch
    /\ UNCHANGED <<mpc, mret, file_paths, dirs_ok, all_successful, sinks, n_pushed,
                   dangling, dirVars, streamVars, restD>>

\* std::filesystem::create_directories(path, ec): creates path and its missing
\* ancestors and returns true; returns false when the file system refuses, and
\* also when path is a directory already (nothing was created)
create_directories(path, dirs, refused) ==
    IF path \in dirs \/ path \in refused
      THEN [created |-> FALSE, dirs |-> dirs]
      ELSE [created |-> TRUE, dirs |-> dirs \cup WithAncestors(path)]

\* the job of directory i: if (!fs::create_directories(path, ec)) { err = ...;
\* success = false; }
dir_job_create(i) ==
    /\ jobs[i].pc = "create"
    /\ LET r == create_directories(dir_paths[i], fs, fs_fail)
       IN  /\ fs' = r.dirs
           /\ jobs' = [jobs EXCEPT ![i] = [pc |-> "tried", success |-> r.created]]
    /\ UNCHANGED <<mpc, mret, file_paths, dirs_ok, all_successful, latch, sinks, n_pushed,
                   dangling, dir_paths, fs_fail, streamVars, restD>>

\* the job of directory i: latch.count_down();
dir_job_count_down(i) ==
    /\ jobs[i].pc = "tried"
    /\ latch' = latch - 1
    /\ jobs' = [jobs EXCEPT ![i].pc = "counted"]
    /\ UNCHANGED <<mpc, mret, file_paths, dirs_ok, all_successful, sinks, n_pushed,
                   dangling, dirVars, streamVars, restD>>

\* the job of directory i: all_successful.fetch_and(static_cast<char>(success));
\* return success; a job that returns false has its err handed to the pool's
\* error callback
dir_job_fetch_and(i) ==
    /\ jobs[i].pc = "counted"
    /\ all_successful' = IF jobs[i].success THEN all_successful ELSE 0
    /\ dangling' = (dangling \/ mpc = "done")
    /\ jobs' = [jobs EXCEPT ![i].pc = "done"]
    /\ error_' = IF jobs[i].success THEN error_
                 ELSE set_error_("Failed to create directory")
    /\ UNCHANGED <<mpc, mret, file_paths, dirs_ok, latch, sinks, n_pushed,
                   dirVars, streamIdleVars, thread_pool_, restD>>

NextD ==
    \/ make_dirs
    \/ make_dirs_push
    \/ make_dirs_wait
    \/ \E i \in 1..Len(jobs) : dir_job_is_directory(i)
    \/ \E i \in 1..Len(jobs) : dir_job_create(i)
    \/ \E i \in 1..Len(jobs) : dir_job_count_down(i)
    \/ \E i \in 1..Len(jobs) : dir_job_fetch_and(i)

SpecD == InitD /\ [][NextD]_vars

\* ------------------------------------------------- write_custom_metadata
\* Custom metadata texts are strings over digits, blanks and a character that
\* is not JSON.  The JSON documents among them are the numbers, with optional
\* blanks around them.
Chars == {"1", " ", "x"}

MetadataTexts == UNION { [1..n -> Chars] : n \in 0..MaxDoc }

RECURSIVE TrimLeft(_)
TrimLeft(t) == IF t # <<>> /\ Head(t) = " " THEN TrimLeft(Tail(t)) ELSE t

RECURSIVE TrimRight(_)
TrimRight(t) ==
    IF t # <<>> /\ t[Len(t)] = " " THEN TrimRight(SubSeq(t, 1, Len(t) - 1)) ELSE t

DigitValue(c) == IF c = "1" THEN 1 ELSE 2

RECURSIVE ToNumber(_)
ToNumber(t) ==
    IF t = <<>> THEN 0 ELSE 10 * ToNumber(SubSeq(t, 1, Len(t) - 1)) + DigitValue(t[Len(t)])

\* nlohmann::json::parse(text, nullptr, false, true): the value, or discarded
json_parse(text) ==
    LET t == TrimRight(TrimLeft(text))
    IN  IF t # <<>> /\ \A k \in 1..Len(t) : t[k] \in {"1", "2"}
          THEN [discarded |-> FALSE, value |-> ToNumber(t)]
          ELSE [discarded |-> TRUE, value |-> 0]

DigitChar(d) == <<"0", "1", "2", "3", "4", "5", "6", "7", "8", "9">>[d + 1]

\* json.dump(4) of a number: its decimal digits
RECURSIVE json_dump(_)
json_dump(n) ==
    IF n < 10 THEN <<DigitChar(n)>> ELSE Append(json_dump(n \div 10), DigitChar(n % 10))

\* validate_custom_metadata: not empty, and it parses
validate_custom_metadata(metadata) ==
    metadata # <<>> /\ ~json_parse(metadata).discarded

\* Sink::write(offset, buf): a positioned write; the bytes of the sink outside
\* [offset, offset + |buf|) stay as they are
sink_write(contents, offset, buf) ==
    LET end == IF Len(contents) > offset + Len(buf) THEN Len(contents)
               ELSE offset + Len(buf)
    IN  [k \in 1..end |-> IF offset < k /\ k <= offset + Len(buf)
                            THEN buf[k - offset] ELSE contents[k]]

\* a stream that overwrites whatever the flag says
refuses_never(contains, overwrite) == FALSE

\* } else if (!overwrite) { return ZarrStatusCode_WillNotOverwrite; }
refuses(contains, overwrite) == contains /\ ~overwrite

\* a created stream (Zarr v2 or v3 metadata sinks) on which only
\* write_custom_metadata is called
InitM ==
    /\ StreamOff /\ thread_pool_ = "running"
    /\ metadata_sinks_ \in { {".zattrs", ".zgroup"}, {"zarr.json"} }
    /\ WriterIdle /\ SinksOff /\ DirsOff /\ MetaOff /\ ValidOff /\ OmeOff /\ FinOff /\ CallOff /\ ArrOff

\* what write_custom_metadata leaves alone, metadata_sinks_ aside
restM == <<settings, pat, error_, frame_buffer_, frame_buffer_offset_, writers_,
           scaled_frames_, writers_finalized, thread_pool_,
           pc, pos, nbytes, bytes_written, data, bytes_to_copy, ret, exc, cur,
           n_bytes, lvl, cdata, frame_width, frame_height, casc, nfail,
           fin_ret, writerVars, sinkVars, dirVars, validVars, omeVars, finVars, callVars, arrVars>>

\* ZarrStream_s::write_custom_metadata(custom_metadata, overwrite); made: does
\* make_file_sink return a sink (not nullptr), wrote: does sink->write succeed
write_custom_metadata(custom_metadata, overwrite, made, wrote) ==
    LET valid == validate_custom_metadata(custom_metadata)
        contains == "acquire.json" \in metadata_sinks_
        sink == IF contains THEN acquire_sink
                ELSE IF made THEN "open" ELSE "null"
        metadata_str == IF valid THEN json_dump(json_parse(custom_metadata).value)
                        ELSE <<>>
        call == [valid |-> valid, str |-> metadata_str, overwrite |-> overwrite,
                 made |-> TRUE, wrote |-> TRUE]
    IN  /\ IF ~valid
             THEN /\ md_status' = "InvalidArgument"
                  /\ md_call' = call
                  /\ UNCHANGED <<metadata_sinks_, acquire_sink, acquire_bytes, md_written>>
             ELSE IF refuses(contains, overwrite)
                    THEN /\ md_status' = "WillNotOverwrite"
                         /\ md_call' = call
                         /\ UNCHANGED <<metadata_sinks_, acquire_sink, acquire_bytes,
                                        md_written>>
                    ELSE /\ metadata_sinks_' = metadata_sinks_ \cup {"acquire.json"}
                         /\ acquire_sink' = sink
                         /\ IF sink = "null"
                              THEN /\ md_status' = "InternalError"
                                   /\ md_call' = [call EXCEPT !.made = contains]
                                   /\ UNCHANGED <<acquire_bytes, md_written>>
                              ELSE IF ~wrote
                                     THEN /\ md_status' = "IOError"
                                          /\ md_call' = [call EXCEPT !.wrote = FALSE]
                                          /\ UNCHANGED <<acquire_bytes, md_written>>
                                     ELSE /\ acquire_bytes' =
                                               sink_write(acquire_bytes, 0, metadata_str)
                                          /\ md_status' = "Success"
                                          /\ md_call' = call
                                          /\ md_written' = TRUE
        /\ UNCHANGED restM

NextM ==
    \E custom_metadata \in MetadataTexts : \E overwrite, made, wrote \in BOOLEAN :
        write_custom_metadata(custom_metadata, overwrite, made, wrote)

SpecM == InitM /\ [][NextM]_vars

\* -------------------------------------- stream creation: validate_settings_
ZarrDataTypeCount == 10     \* number of ZarrDataType values

\* One dimension of the settings.  Names are not empty and types are valid;
\* a dimension has at most one of: zero extent, zero chunk size, zero shard
\* size, a chunk larger than its extent.
DimensionProperties ==
    { d \in [type : {"time", "space"}, array_size_px : {0, 2},
             chunk_size_px : {0, 1, 3}, shard_size_chunks : {0, 1}] :
        Cardinality({ k \in {"e", "c", "s"} :
                        \/ k = "e" /\ d.array_size_px = 0
                        \/ k = "c" /\ d.chunk_size_px # 1
                        \/ k = "s" /\ d.shard_size_chunks = 0 }) <= 1 }

\* ZarrStreamSettings_s with a usable store path and no compression settings
StreamSettingsIn ==
    { [version |-> v, data_type |-> t, multiscale |-> m, dimensions |-> d] :
        v \in {2, 3}, t \in {0, ZarrDataTypeCount}, m \in BOOLEAN,
        d \in UNION { [1..n -> DimensionProperties] : n \in 2..MaxDims } }

\* a validate_dimension that lets a zero extent pass on every dimension
extent_ok_anywhere(is_append, array_size_px) == TRUE

\* validate_dimension: if (!is_append && dimension->array_size_px == 0) fail
extent_ok(is_append, array_size_px) == is_append \/ array_size_px # 0

\* validate_dimension(dimension, version, is_append, error): "" when valid
validate_dimension(dimension, version, is_append) ==
    IF ~extent_ok(is_append, dimension.array_size_px)
      THEN "Array size must be nonzero"
      ELSE IF dimension.chunk_size_px = 0
             THEN "Invalid chunk size"
             ELSE IF version = 3 /\ dimension.shard_size_chunks = 0
                    THEN "Shard size must be nonzero"
                    ELSE ""

\* the loop "validate the dimensions individually": the first error, or ""
RECURSIVE validate_dimensions(_, _, _)
validate_dimensions(dims, version, i) ==
    IF i > Len(dims) THEN ""
    ELSE LET e == validate_dimension(dims[i], version, i = 1)
         IN  IF e # "" THEN e ELSE validate_dimensions(dims, version, i + 1)

\* ZarrStream_s::validate_settings_: the message left in error_, "" when valid
validate_settings_(s) ==
    LET ndims == Len(s.dimensions)
    IN  IF s.data_type >= ZarrDataTypeCount THEN "Invalid data type"
        ELSE IF ndims < 3 THEN "Invalid number of dimensions"
        ELSE IF s.dimensions[ndims].type # "space"
               THEN "Last dimension must be of type Space"
        ELSE IF s.dimensions[ndims - 1].type # "space"
               THEN "Second to last dimension must be of type Space"
        ELSE validate_dimensions(s.dimensions, s.version, 1)

\* the settings create_writers_ works from, read off the committed dimensions
CommittedSettings(s) ==
    LET ndims == Len(s.dimensions)
    IN  [multiscale |-> s.multiscale,
         height |-> s.dimensions[ndims - 1].array_size_px,
         width |-> s.dimensions[ndims].array_size_px,
         chunk_h |-> s.dimensions[ndims - 1].chunk_size_px,
         chunk_w |-> s.dimensions[ndims].chunk_size_px]

\* no stream exists yet; the constructor is about to run on vsettings
InitV ==
    /\ StreamOff /\ thread_pool_ = "stopped" /\ metadata_sinks_ = {}
    /\ WriterIdle /\ SinksOff /\ DirsOff /\ MetaOff /\ OmeOff /\ FinOff /\ CallOff /\ ArrOff
    /\ vpc = "start" /\ vsettings \in StreamSettingsIn /\ dimensions_ = <<>>

\* ZarrStream_s::ZarrStream_s: EXPECT(validate_settings_(settings), error_)
\* throws and nothing is built; otherwise the settings are committed and the
\* pool, frame buffer, writers, scaled-frame slots and metadata sinks are made
ZarrStream_s ==
    /\ vpc = "start"
    /\ LET e == validate_settings_(vsettings)
           s == CommittedSettings(vsettings)
       IN  IF e # ""
             THEN /\ vpc' = "rejected"
                  /\ error_' = e
                  /\ UNCHANGED <<dimensions_, settings, thread_pool_, frame_buffer_,
                                 writers_, scaled_frames_, metadata_sinks_>>
             ELSE /\ vpc' = "created"
                  /\ dimensions_' = vsettings.dimensions
                  /\ settings' = s
                  /\ thread_pool_' = "running"
                  /\ frame_buffer_' = [k \in 1..bytes_of_frame(s) |-> 0]
                  /\ writers_' = [l \in 1..Len(create_writers_(s)) |-> <<>>]
                  /\ scaled_frames_' =
                        IF s.multiscale
                          THEN [l \in 1..(Len(create_writers_(s)) - 1) |-> None]
                          ELSE <<>>
                  /\ metadata_sinks_' = IF vsettings.version = 2
                                          THEN {".zattrs", ".zgroup"} ELSE {"zarr.json"}
                  /\ UNCHANGED error_
    /\ UNCHANGED <<vsettings, pat, frame_buffer_offset_, writers_finalized,
                   pc, pos, nbytes, bytes_written, data, bytes_to_copy, ret, exc, cur,
                   n_bytes, lvl, cdata, frame_width, frame_height, casc, nfail,
                   fin_ret, writerVars, sinkVars, dirVars, metaVars, omeVars, finVars, callVars, arrVars>>

NextV == ZarrStream_s

SpecV == InitV /\ [][NextV]_vars

\* ------------------------------------------ make_ome_metadata_, step by step
\* std::to_string of a non-negative integer
RECURSIVE to_string(_)
to_string(n) ==
    IF n < 10 THEN <<DigitChar(n)>> ELSE Append(to_string(n \div 10), DigitChar(n % 10))

\* dimensions of a created stream with n dimensions: the append dimension,
\* n - 3 channel dimensions, and height and width
OmeDimensions(n) ==
    [d \in 1..n |->
        [type |-> IF d = 1 THEN "time" ELSE IF d > n - 2 THEN "space" ELSE "channel",
         array_size_px |-> 2, chunk_size_px |-> 1, shard_size_chunks |-> 1]]

\* dimensions_->ndims()
n_dims == Len(dimensions_)

\* a created stream with 3..MaxOmeDims dimensions and 1..MaxLevels writers
InitO ==
    /\ settings = NoSettings /\ pat = 1 /\ error_ = ""
    /\ frame_buffer_ = <<>> /\ frame_buffer_offset_ = 0
    /\ scaled_frames_ = <<>> /\ writers_finalized = {}
    /\ pc = "off" /\ pos = 0 /\ nbytes = 0 /\ ret = -1 /\ exc = ""
    /\ IdleLocals
    /\ casc = <<>> /\ nfail = 0 /\ fin_ret = "none"
    /\ thread_pool_ = "running" /\ metadata_sinks_ = {}
    /\ WriterIdle /\ SinksOff /\ DirsOff /\ MetaOff
    /\ vpc = "off" /\ vsettings = NoStreamSettings
    /\ dimensions_ \in { OmeDimensions(n) : n \in 3..MaxOmeDims }
    /\ \E levels \in 1..MaxLevels : writers_ = [l \in 1..levels |-> <<>>]
    /\ opc = "start" /\ version_ \in {2, 3}
    /\ multiscales = NoJson /\ scales = <<>> /\ ome_i = 0 /\ ome_k = 0
    /\ FinOff /\ CallOff /\ ArrOff

\* what make_ome_metadata_ (a const member) leaves alone
restO == <<streamVars, version_, writerVars, sinkVars, dirVars, metaVars, validVars, finVars, callVars, arrVars>>

\* make_ome_metadata_: the axes, and the level-0 dataset with scale 1.0
\* in every dimension
ome_begin ==
    /\ opc = "start"
    /\ scales' = [d \in 1..n_dims |-> 1]
    /\ multiscales' =
          [NoJson EXCEPT
              !.axes = [d \in 1..n_dims |->
                           [type |-> dimensions_[d].type, unit |-> (d > n_dims - 2)]],
              !.datasets = <<[path |-> <<"0">>, scale |-> [d \in 1..n_dims |-> 1]]>>]
    /\ ome_i' = 1 /\ ome_k' = 0
    /\ opc' = "loop"
    /\ UNCHANGED restO

\* a loop that pushes one 1. too many
n_middle_off_by_one(n) == n - 2

\* for (auto k = 0; k < dimensions_->ndims() - 3; ++k): number of iterations
n_middle(n) == n - 3

\* for (auto i = 1; i < writers_.size(); ++i): the loop test; inside,
\* scales.clear(); scales.push_back(std::pow(2, i)); // append
\* after the loop, the version and name are set and the json is returned
ome_level ==
    /\ opc = "loop"
    /\ IF ome_i < Len(writers_)
         THEN /\ scales' = <<2 ^ ome_i>>
              /\ ome_k' = 0
              /\ opc' = "middle"
              /\ UNCHANGED <<multiscales, ome_i>>
         ELSE /\ multiscales' =
                    [multiscales EXCEPT !.version = IF version_ = 2 THEN "0.4" ELSE "0.5"]
              /\ opc' = "done"
              /\ UNCHANGED <<scales, ome_i, ome_k>>
    /\ UNCHANGED restO

\* one iteration of the k loop: scales.push_back(1.);
ome_push_middle ==
    /\ opc = "middle"
    /\ ome_k < n_middle(n_dims)
    /\ scales' = Append(scales, 1)
    /\ ome_k' = ome_k + 1
    /\ UNCHANGED <<opc, multiscales, ome_i, restO>>

\* after the k loop: push 2^i for y and x, append the dataset of level i, set
\* the downsampling metadata, ++i
ome_push_dataset ==
    /\ opc = "middle"
    /\ ~(ome_k < n_middle(n_dims))
    /\ LET full == Append(Append(scales, 2 ^ ome_i), 2 ^ ome_i)
       IN  /\ scales' = full
           /\ multiscales' =
                 [multiscales EXCEPT
                     !.datasets = Append(@, [path |-> to_string(ome_i), scale |-> full]),
                     !.type = "local_mean"]
    /\ ome_i' = ome_i + 1
    /\ opc' = "loop"
    /\ UNCHANGED <<ome_k, restO>>

NextO == ome_begin \/ ome_level \/ ome_push_middle \/ ome_push_dataset

SpecO == InitO /\ [][NextO]_vars

\* --------------------------------------------- finalize_stream, step by step
\* the sinks create_metadata_sinks_ makes for a version, and the one
\* write_custom_metadata may have added
MetadataSinkNames(version, custom) ==
    (IF version = 2 THEN {".zattrs", ".zgroup"} ELSE {"zarr.json"})
        \cup (IF custom THEN {"acquire.json"} ELSE {})

FinStep(step, name, level, ok) ==
    [step |-> step, name |-> name, level |-> level, ok |-> ok, pool |-> thread_pool_]

\* a created stream (v2 or v3, with or without custom metadata, 1..MaxLevels
\* writers) on which finalize_stream is called
InitF ==
    /\ settings = NoSettings /\ pat = 1 /\ error_ = ""
    /\ frame_buffer_ = <<>> /\ frame_buffer_offset_ = 0
    /\ \E levels \in 1..MaxLevels :
          /\ writers_ = [l \in 1..levels |-> <<>>]
          /\ scaled_frames_ = [l \in 1..(levels - 1) |-> None]
    /\ writers_finalized = {}
    /\ thread_pool_ = "running"
    /\ version_ \in {2, 3}
    /\ \E custom \in BOOLEAN : metadata_sinks_ = MetadataSinkNames(version_, custom)
    /\ pc = "fin_start" /\ pos = 0 /\ nbytes = 0 /\ ret = -1 /\ exc = ""
    /\ IdleLocals
    /\ casc = <<>> /\ nfail = 0 /\ fin_ret = "none"
    /\ WriterIdle /\ SinksOff /\ DirsOff /\ MetaOff /\ ValidOff
    /\ opc = "off" /\ multiscales = NoJson /\ scales = <<>> /\ ome_i = 0 /\ ome_k = 0
    /\ fin_i = 0 /\ fin_log = <<>> /\ CallOff /\ ArrOff

\* what the steps of finalize_stream leave alone, the variables each step
\* writes aside
restF == <<callVars, arrVars, settings, pat, frame_buffer_, frame_buffer_offset_, scaled_frames_,
           pos, nbytes, bytes_written, data, bytes_to_copy, ret, exc, cur,
           n_bytes, lvl, cdata, frame_width, frame_height, casc, nfail,
           writerVars, sinkVars, dirVars, metaVars, validVars, omeVars>>

\* if (!stream->write_group_metadata_()) return false;
finalize_group_metadata(ok) ==
    /\ pc = "fin_start"
    /\ fin_log' = Append(fin_log, FinStep("group", "", -1, ok))
    /\ IF ok
         THEN /\ pc' = "fin_sinks"
              /\ UNCHANGED <<error_, fin_ret>>
         ELSE /\ error_' = set_error_("Error writing group metadata")
              /\ fin_ret' = "false"
              /\ pc' = "finalized"
    /\ UNCHANGED <<metadata_sinks_, writers_, writers_finalized, thread_pool_,
                   fin_i, restF>>

\* the sinks the loop over metadata_sinks_ has visited
sinks_visited == { fin_log[j].name : j \in { j \in 1..Len(fin_log) : fin_log[j].step = "sink" } }

\* one iteration of for (auto& [sink_name, sink] : stream->metadata_sinks_):
\* finalize_sink flushes and resets the sink, or returns false and leaves it;
\* after the last one, metadata_sinks_.clear()
finalize_metadata_sink(sink_name, ok) ==
    /\ pc = "fin_sinks"
    /\ sink_name \in metadata_sinks_ \ sinks_visited
    /\ fin_log' = Append(fin_log, FinStep("sink", sink_name, -1, ok))
    /\ IF ~ok
         THEN /\ metadata_sinks_' = metadata_sinks_ \ sinks_visited
              /\ fin_ret' = "false"
              /\ pc' = "finalized"
         ELSE IF metadata_sinks_ \ sinks_visited = {sink_name}
                THEN /\ metadata_sinks_' = {}
                     /\ pc' = "fin_writers"
                     /\ UNCHANGED fin_ret
                ELSE UNCHANGED <<metadata_sinks_, pc, fin_ret>>
    /\ UNCHANGED <<error_, writers_, writers_finalized, thread_pool_, fin_i, restF>>

\* a writers loop that stops one writer short
writers_left_but_last(j, size) == j < size - 1

\* for (auto i = 0; i < stream->writers_.size(); ++i): the loop test
writers_left(j, size) == j < size

\* one iteration of the writers loop:
\* if (!finalize_array(std::move(stream->writers_[i]))) return false;
finalize_writer(ok) ==
    /\ pc = "fin_writers"
    /\ writers_left(fin_i, Len(writers_))
    /\ fin_log' = Append(fin_log, FinStep("writer", "", fin_i, ok))
    /\ IF ok
         THEN /\ writers_finalized' = writers_finalized \cup {fin_i}
              /\ fin_i' = fin_i + 1
              /\ UNCHANGED <<pc, fin_ret>>
         ELSE /\ fin_ret' = "false"
              /\ pc' = "finalized"
              /\ UNCHANGED <<writers_finalized, fin_i>>
    /\ UNCHANGED <<error_, metadata_sinks_, writers_, thread_pool_, restF>>

\* after the loop: writers_.clear(); thread_pool_->await_stop(); return true;
finalize_await_stop ==
    /\ pc = "fin_writers"
    /\ ~writers_left(fin_i, Len(writers_))
    /\ fin_log' = Append(fin_log, FinStep("stop", "", -1, TRUE))
    /\ writers_' = <<>>
    /\ thread_pool_' = "stopped"
    /\ fin_ret' = "true"
    /\ pc' = "finalized"
    /\ UNCHANGED <<error_, metadata_sinks_, writers_finalized, fin_i, restF>>

NextF ==
    \/ \E ok \in BOOLEAN : finalize_group_metadata(ok)
    \/ \E sink_name \in metadata_sinks_ : \E ok \in BOOLEAN :
          finalize_metadata_sink(sink_name, ok)
    \/ \E ok \in BOOLEAN : finalize_writer(ok)
    \/ finalize_await_stop

SpecF == InitF /\ [][NextF]_vars

\* ------------------------------------------------ average_two_frames<T>
\* no stream, writer, sink or metadata operation is modelled: only a free
\* function is under call
AllOff ==
    /\ StreamOff /\ thread_pool_ = "stopped" /\ metadata_sinks_ = {}
    /\ WriterIdle /\ SinksOff /\ DirsOff /\ MetaOff /\ ValidOff /\ OmeOff /\ FinOff
    /\ ArrOff

\* what a free function leaves alone
restCall == <<streamVars, writerVars, sinkVars, dirVars, metaVars, validVars,
              omeVars, finVars, arrVars>>

\* the integer types of the dtype_ switch whose values and sums are modelled;
\* a uint32 is kept as two 16-bit halves <<hi, lo>>, the narrower types as
\* integers
DataTypes == {"uint8", "int8", "uint16", "int16", "uint32"}

Half == 2 ^ 16

\* the extreme values of a type
PixelValues(T) ==
    CASE T = "uint8"  -> {0, 1, 254, 255}
      [] T = "int8"   -> {-128, -1, 1, 127}
      [] T = "uint16" -> {0, 1, 65534, 65535}
      [] T = "int16"  -> {-32768, -1, 1, 32767}
      [] T = "uint32" -> {<<0, 0>>, <<0, 1>>, <<32768, 0>>, <<65535, 65535>>}

\* dst_as_T[i] + src_as_T[i]: operands narrower than int are promoted to int
\* and the sum is exact; uint32 operands are added in uint32, modulo 2^32
sum_as_T(T, a, b) ==
    IF T = "uint32"
      THEN LET lo == a[2] + b[2]
               hi == a[1] + b[1] + (lo \div Half)
           IN  <<hi % Half, lo % Half>>
      ELSE a + b

\* static_cast<T>(0.5 * sum): the double product is exact for these widths and
\* the cast truncates toward zero
half_as_T(T, sum) ==
    IF T = "uint32"
      THEN <<sum[1] \div 2, (sum[2] + (sum[1] % 2) * Half) \div 2>>
      ELSE TruncDiv(sum, 2)

\* average2 = average_two_frames<T>, by dtype_: the new contents of dst
average2(T, dst, src) ==
    [k \in 1..Len(dst) |-> half_as_T(T, sum_as_T(T, dst[k], src[k]))]

\* a call average_two_frames<T>(dst, src) on two frames of 1..MaxPixels
\* elements each
InitA ==
    /\ AllOff
    /\ call_pc = "start"
    /\ \E T \in DataTypes : \E n \in 1..MaxPixels, m \in 1..MaxPixels :
          \E dst \in [1..n -> PixelValues(T)], src \in [1..m -> PixelValues(T)] :
             call_args = [fn |-> "average_two_frames", T |-> T, dst |-> dst, src |-> src]
    /\ call_ret = <<>>

\* average_two_frames<T>: EXPECT(bytes_of_dst == bytes_of_src), then the loop
\* over num_pixels writes dst in place
average_two_frames_T ==
    /\ call_pc = "start"
    /\ call_args.fn = "average_two_frames"
    /\ IF Len(call_args.dst) # Len(call_args.src)
         THEN call_pc' = "threw" /\ UNCHANGED call_ret
         ELSE /\ call_pc' = "done"
              /\ call_ret' = average2(call_args.T, call_args.dst, call_args.src)
    /\ UNCHANGED <<call_args, restCall>>

NextA == average_two_frames_T

SpecA == InitA /\ [][NextA]_vars

\* --------------------------------------------------------- scale_image<T>
\* a call scale_image<uint8_t>(src, width, height) on a frame of up to
\* MaxSide x MaxSide elements; src holds one element less than the frame, the
\* frame, or one element more
InitI ==
    /\ AllOff
    /\ call_pc = "start"
    /\ \E width \in 1..MaxSide, height \in 1..MaxSide :
          \E n \in (width * height - 1)..(width * height + 1) :
             \E src \in [1..n -> {0, 255}] :
                call_args = [fn |-> "scale_image", src |-> src,
                             width |-> width, height |-> height]
    /\ call_ret = <<>>

\* every source index the two loops of scale_image read
scale_image_reads(width, height) ==
    UNION { { block_indices(width, height, row, col)[j] : j \in 1..4 } :
              row \in { r \in 0..(height - 1) : r % 2 = 0 },
              col \in { c \in 0..(width - 1) : c % 2 = 0 } }

\* scale_image<T>: EXPECT(bytes_of_src >= bytes_of_frame), then the two loops;
\* width and height are references and are overwritten
scale_image_T ==
    /\ call_pc = "start"
    /\ call_args.fn = "scale_image"
    /\ IF Len(call_args.src) < call_args.width * call_args.height
         THEN call_pc' = "threw" /\ UNCHANGED call_ret
         ELSE /\ call_pc' = "done"
              /\ call_ret' =
                    [scaled |-> scale_image(call_args.src, call_args.width, call_args.height),
                     reads |-> scale_image_reads(call_args.width, call_args.height)]
    /\ UNCHANGED <<call_args, restCall>>

NextI == scale_image_T

SpecI == InitI /\ [][NextI]_vars

\* ---------------------------------------------------- construct_data_paths
\* a path is a sequence of characters; the parts of dimensions 1..ndims-1
\* (parts_along_dimension of each) are handed over as a sequence
BasePaths == { <<"b">>, <<"b", "/", "0">> }

\* the largest k of for (auto k = 0; k < n_parts; ++k), taken one too far
last_part_inclusive(n_parts) == n_parts

\* the largest k of for (auto k = 0; k < n_parts; ++k)
last_part(n_parts) == n_parts - 1

\* path + (path.empty() ? kstr : "/" + kstr)
push_intermediate(path, k) ==
    path \o (IF path = <<>> THEN to_string(k) ELSE <<"/">> \o to_string(k))

\* path + "/" + std::to_string(j)
push_final(path, j) == path \o <<"/">> \o to_string(j)

\* one pass over the queue: every path popped from the front, its n_parts
\* children pushed at the back
RECURSIVE expand_queue(_, _, _)
expand_queue(queue, n_parts, final) ==
    IF queue = <<>>
      THEN <<>>
      ELSE [k \in 1..(last_part(n_parts) + 1) |->
               IF final THEN push_final(Head(queue), k - 1)
                        ELSE push_intermediate(Head(queue), k - 1)]
           \o expand_queue(Tail(queue), n_parts, final)

\* the loop over dimensions i..ndims-2 and then the width dimension; CHECK
\* throws on zero parts
RECURSIVE construct_from(_, _, _)
construct_from(queue, parts, i) ==
    IF parts[i] = 0
      THEN [threw |-> TRUE, paths |-> <<>>]
      ELSE IF i = Len(parts)
             THEN [threw |-> FALSE, paths |-> expand_queue(queue, parts[i], TRUE)]
             ELSE construct_from(expand_queue(queue, parts[i], FALSE), parts, i + 1)

construct_data_paths(base_path, parts) == construct_from(<<base_path>>, parts, 1)

\* a call construct_data_paths(base_path, dimensions, parts_along_dimension)
\* for 3..MaxPathDims dimensions with 0..MaxParts parts each
InitP ==
    /\ AllOff
    /\ call_pc = "start"
    /\ \E base_path \in BasePaths : \E n \in 3..MaxPathDims :
          \E parts \in [1..(n - 1) -> 0..MaxParts] :
             call_args = [fn |-> "construct_data_paths", base_path |-> base_path,
                          parts |-> parts]
    /\ call_ret = <<>>

construct_data_paths_call ==
    /\ call_pc = "start"
    /\ call_args.fn = "construct_data_paths"
    /\ LET r == construct_data_paths(call_args.base_path, call_args.parts)
       IN  IF r.threw
             THEN call_pc' = "threw" /\ UNCHANGED call_ret
             ELSE call_pc' = "done" /\ call_ret' = r.paths
    /\ UNCHANGED <<call_args, restCall>>

NextP == construct_data_paths_call

SpecP == InitP /\ [][NextP]_vars

\* --------------------------------------------------------- ArrayWriter (v2)
\* The members are those of array.writer.hh; the member functions, whose
\* bodies are in no file at hand, follow sections 4.5 and 5 of the design.
\* config_: chunk_px of the append dimension and the parts of the height and
\* width dimensions; buffered: the frames copied into data_buffers_.
ArrayWriterOf(chunk_px, parts) ==
    [chunk_px |-> chunk_px, parts |-> parts,
     state |-> "Appending", frames_written_ |-> 0, append_chunk_index_ |-> 0,
     is_finalizing_ |-> FALSE, data_paths_ |-> <<>>, buffered |-> <<>>]

InitR ==
    /\ StreamOff /\ thread_pool_ = "running" /\ metadata_sinks_ = {}
    /\ WriterIdle /\ SinksOff /\ DirsOff /\ MetaOff /\ ValidOff /\ OmeOff /\ FinOff
    /\ CallOff
    /\ \E chunk_px \in 1..MaxChunkPx : \E parts \in [1..2 -> 1..MaxRowParts] :
          array_writer = ArrayWriterOf(chunk_px, parts)
    /\ chunk_jobs = {}
    /\ store = {}

restR == <<streamVars, writerVars, sinkVars, dirVars, metaVars, validVars,
           omeVars, finVars, callVars>>

\* data_root_(): <lod>/<append_chunk_idx>, for level 0
data_root_(w) == <<"0", "/">> \o to_string(w.append_chunk_index_)

\* a writer that flushes one frame late
should_flush_late(w) == Len(w.buffered) = w.chunk_px + 1

\* should_flush_(): the current chunk row holds chunk_px frames
should_flush_(w) == Len(w.buffered) = w.chunk_px

\* compress_and_flush_data_ begins: make_data_paths_ names the chunks of the
\* row and one compress+write job per chunk is submitted
begin_flush(w, state) ==
    LET paths == construct_data_paths(data_root_(w), w.parts).paths
    IN  /\ array_writer' = [w EXCEPT !.state = state, !.data_paths_ = paths]
        /\ chunk_jobs' = 1..Len(paths)

\* ArrayWriter::write_frame while Appending: the frame goes into the chunk
\* buffers of the current row; a full row starts the flush
write_frame ==
    /\ array_writer.state = "Appending"
    /\ array_writer.frames_written_ < MaxWriterFrames
    /\ LET w == [array_writer EXCEPT
                    !.frames_written_ = @ + 1,
                    !.buffered = Append(@, array_writer.frames_written_ + 1)]
       IN  IF should_flush_(w)
             THEN begin_flush(w, "Flushing")
             ELSE array_writer' = w /\ UNCHANGED chunk_jobs
    /\ UNCHANGED <<store, restR>>

\* one compress+write job: the chunk's bytes go to the sink of its own path
chunk_job(j) ==
    /\ j \in chunk_jobs
    /\ chunk_jobs' = chunk_jobs \ {j}
    /\ store' = store \cup {[path |-> array_writer.data_paths_[j],
                             row |-> array_writer.append_chunk_index_,
                             frames |-> array_writer.buffered]}
    /\ UNCHANGED <<array_writer, restR>>

\* the flush barrier: every job has completed; rollover_ opens the next
\* chunk row, or the writer is finalized
flush_done ==
    /\ array_writer.state \in {"Flushing", "Finalizing"}
    /\ chunk_jobs = {}
    /\ array_writer' =
          [array_writer EXCEPT
              !.state = IF array_writer.is_finalizing_ THEN "Finalized" ELSE "Appending",
              !.append_chunk_index_ = @ + 1,
              !.buffered = <<>>]
    /\ UNCHANGED <<chunk_jobs, store, restR>>

\* finalize_array: is_finalizing_ is set and a partial flush of the non-empty
\* chunks is forced
finalize_array ==
    /\ array_writer.state = "Appending"
    /\ LET w == [array_writer EXCEPT !.is_finalizing_ = TRUE]
       IN  IF w.buffered # <<>>
             THEN begin_flush(w, "Finalizing")
             ELSE /\ array_writer' = [w EXCEPT !.state = "Finalized"]
                  /\ UNCHANGED chunk_jobs
    /\ UNCHANGED <<store, restR>>

NextR ==
    \/ write_frame
    \/ \E j \in chunk_jobs : chunk_job(j)
    \/ flush_done
    \/ finalize_array

SpecR == InitR /\ [][NextR]_vars

\* ------------------------------------------------- sharded writer (v3)
\* The v3 writer is in no file at hand; the shard assembly protocol follows
\* section 4.6 of the design.  A uint64 is kept as four 16-bit parts.
U64(n) == <<0, 0, n \div Half, n % Half>>

\* 2^64 - 1, the index entry of an absent chunk
Absent == <<Half - 1, Half - 1, Half - 1, Half - 1>>

\* a shard of n chunk positions of which the present ones are being flushed
ShardWriterOf(n, present) ==
    [state |-> "Flushing", n_chunks |-> n, present |-> present,
     compressed |-> [i \in 1..n |-> <<>>], completed |-> <<>>]

InitH ==
    /\ StreamOff /\ thread_pool_ = "running" /\ metadata_sinks_ = {}
    /\ WriterIdle /\ SinksOff /\ DirsOff /\ MetaOff /\ ValidOff /\ OmeOff /\ FinOff
    /\ CallOff
    /\ \E n \in 1..MaxShardChunks : \E present \in (SUBSET (1..n)) \ {{}} :
          /\ array_writer = ShardWriterOf(n, present)
          /\ chunk_jobs = present
    /\ store = {}

\* the job of the chunk at position i: the chunk is compressed on its own into
\* size bytes (here every byte names the position)
compress_job(i, size) ==
    /\ array_writer.state = "Flushing"
    /\ i \in chunk_jobs
    /\ chunk_jobs' = chunk_jobs \ {i}
    /\ array_writer' = [array_writer EXCEPT
                           !.compressed[i] = [k \in 1..size |-> i],
                           !.completed = Append(@, i)]
    /\ UNCHANGED <<store, restR>>

\* an offset that counts the chunks completed earlier instead of the chunks
\* at earlier positions
RECURSIVE offset_by_completion(_, _)
offset_by_completion(w, i) ==
    LET before == { j \in 1..Len(w.completed) : w.completed[j] = i }
        k == CHOOSE j \in before : TRUE
    IN  IF k = 1 THEN 0
        ELSE offset_by_completion(w, w.completed[k - 1])
                + Len(w.compressed[w.completed[k - 1]])

\* the offset of the chunk at position i: the sizes of the chunks at the
\* positions before it, in row-major order
RECURSIVE chunk_offset(_, _)
chunk_offset(w, i) ==
    IF i = 1 THEN 0 ELSE chunk_offset(w, i - 1) + Len(w.compressed[i - 1])

\* the compressed chunks concatenated in position order
RECURSIVE shard_data(_, _)
shard_data(w, i) ==
    IF i > w.n_chunks THEN <<>> ELSE w.compressed[i] \o shard_data(w, i + 1)

\* when every chunk job has completed: the shard object is written, the
\* compressed chunks followed by the index of one (offset, size) pair per
\* position
write_shard ==
    /\ array_writer.state = "Flushing"
    /\ chunk_jobs = {}
    /\ store' = store \cup
          {[data |-> shard_data(array_writer, 1),
            index |-> [i \in 1..array_writer.n_chunks |->
                         IF i \in array_writer.present
                           THEN [offset |-> U64(chunk_offset(array_writer, i)),
                                 size |-> U64(Len(array_writer.compressed[i]))]
                           ELSE [offset |-> Absent, size |-> Absent]]]}
    /\ array_writer' = [array_writer EXCEPT !.state = "Written"]
    /\ UNCHANGED <<chunk_jobs, restR>>

NextH ==
    \/ \E i \in chunk_jobs : \E size \in 1..MaxCompressed : compress_job(i, size)
    \/ write_shard

SpecH == InitH /\ [][NextH]_vars

\* --------------------------------------- the constructor and the data store
\* store_path_ and its parent directory
store_path_ == <<"a", "b">>
parent_path == <<"a">>

\* settings for the store model: version 2, a time dimension followed by
\* spatial ones
StoreSettingsIn ==
    { s \in StreamSettingsIn :
        /\ s.version = 2
        /\ \A i \in 1..Len(s.dimensions) :
              s.dimensions[i].type = (IF i = 1 THEN "time" ELSE "space") }

\* validate_filesystem_store_path: the parent path must exist and be a
\* directory; "" when valid
validate_filesystem_store_path(dirs) ==
    IF parent_path \notin dirs
      THEN "Parent path does not exist or is not a directory"
      ELSE ""

\* validate_settings_ on a file-system store: the store path is checked
\* before the data type and the dimensions
validate_settings_fs(s, dirs) ==
    IF validate_filesystem_store_path(dirs) # ""
      THEN validate_filesystem_store_path(dirs)
      ELSE validate_settings_(s)

\* a constructor that goes on whatever validate_settings_ found
expect_ignored(e) == TRUE

\* EXPECT(validate_settings_(settings), error_): may the constructor go on?
expect_valid(e) == e = ""

\* the objects a previous acquisition left in the store
OldObjects == {"0/0/0/0", ".zattrs"}

\* no stream exists yet; the store path may exist and hold old objects
InitB ==
    /\ StreamOff /\ thread_pool_ = "stopped" /\ metadata_sinks_ = {}
    /\ WriterIdle /\ SinksOff /\ MetaOff /\ OmeOff /\ FinOff /\ CallOff
    /\ vpc = "start" /\ vsettings \in StoreSettingsIn /\ dimensions_ = <<>>
    /\ dir_paths = <<>>
    /\ fs \in { {}, {parent_path}, {parent_path, store_path_} }
    /\ fs_fail \in { {}, {store_path_} }
    /\ array_writer = <<>> /\ chunk_jobs = {}
    /\ store \in (IF store_path_ \in fs THEN { {}, OldObjects } ELSE { {} })

\* what the constructor leaves alone in every step
restB == <<vsettings, pat, frame_buffer_offset_, writers_finalized,
           pc, pos, nbytes, bytes_written, data, bytes_to_copy, ret, exc, cur,
           n_bytes, lvl, cdata, frame_width, frame_height, casc, nfail,
           fin_ret, writerVars, sinkVars, metaVars, omeVars, finVars, callVars,
           dir_paths, fs_fail, array_writer, chunk_jobs>>

\* ZarrStream_s::ZarrStream_s: EXPECT(validate_settings_(settings), error_)
ZarrStream_s_validate ==
    /\ vpc = "start"
    /\ LET e == validate_settings_fs(vsettings, fs)
       IN  /\ error_' = e
           /\ vpc' = IF expect_valid(e) THEN "validated" ELSE "rejected"
    /\ UNCHANGED <<dimensions_, settings, thread_pool_, frame_buffer_, writers_,
                   scaled_frames_, metadata_sinks_, fs, store, restB>>

\* commit_settings_(settings); start_thread_pool_(...); frame_buffer_.resize(...)
ZarrStream_s_commit ==
    /\ vpc = "validated"
    /\ dimensions_' = vsettings.dimensions
    /\ settings' = CommittedSettings(vsettings)
    /\ thread_pool_' = "running"
    /\ frame_buffer_' = [k \in 1..bytes_of_frame(CommittedSettings(vsettings)) |-> 0]
    /\ vpc' = "store"
    /\ UNCHANGED <<error_, writers_, scaled_frames_, metadata_sinks_, fs, store, restB>>

\* EXPECT(create_store_(), error_) on a file-system store: remove_all of an
\* existing store path (it may fail part-way), then create_directories; a
\* failure throws out of the constructor, which destroys the pool
create_store_ ==
    /\ vpc = "store"
    /\ \E removed \in BOOLEAN : \E left \in SUBSET store :
         LET exists == store_path_ \in fs
             rm_ok == ~exists \/ removed
             dirs == IF exists /\ removed THEN fs \ {store_path_} ELSE fs
             r == create_directories(store_path_, dirs, fs_fail)
         IN  /\ exists \/ (removed /\ left = store)
             /\ removed => left = {}
             /\ ~removed => left # {} \/ store = {}
             /\ IF ~rm_ok
                  THEN /\ error_' = set_error_("Failed to remove existing store path")
                       /\ fs' = fs /\ store' = left
                       /\ vpc' = "failed" /\ thread_pool_' = "stopped"
                  ELSE IF ~r.created
                         THEN /\ error_' = set_error_("Failed to create store path")
                              /\ fs' = dirs /\ store' = IF exists THEN {} ELSE store
                              /\ vpc' = "failed" /\ thread_pool_' = "stopped"
                         ELSE /\ fs' = r.dirs /\ store' = IF exists THEN {} ELSE store
                              /\ vpc' = "stored"
                              /\ UNCHANGED <<error_, thread_pool_>>
    /\ UNCHANGED <<dimensions_, settings, frame_buffer_, writers_, scaled_frames_,
                   metadata_sinks_, restB>>

\* create_writers_(); create_scaled_frames_(); create_metadata_sinks_(); the
\* base and group metadata are written into the store
ZarrStream_s_build ==
    /\ vpc = "stored"
    /\ writers_' = [l \in 1..Len(create_writers_(settings)) |-> <<>>]
    /\ scaled_frames_' = IF settings.multiscale
                           THEN [l \in 1..(Len(create_writers_(settings)) - 1) |-> None]
                           ELSE <<>>
    /\ metadata_sinks_' = MetadataSinkNames(vsettings.version, FALSE)
    /\ store' = store \cup MetadataSinkNames(vsettings.version, FALSE)
    /\ vpc' = "created"
    /\ UNCHANGED <<error_, dimensions_, settings, thread_pool_, frame_buffer_, fs, restB>>

NextB ==
    \/ ZarrStream_s_validate
    \/ ZarrStream_s_commit
    \/ create_store_
    \/ ZarrStream_s_build

SpecB == InitB /\ [][NextB]_vars

\* ================================================================ claims
Last(q) == q[Len(q)]

\* frames writer l accepted (write_frame returned the full size)
Accepted(l) == Cardinality({k \in 1..Len(writers_[l + 1]) : writers_[l + 1][k].ok})

\* C1: however the caller splits its byte stream X into append calls, as long
\* as no writer fails every call returns its full length, writer 0 is handed
\* exactly the frames X[k*B, (k+1)*B) in order, and the trailing |X| mod B
\* bytes sit in the frame buffer.
C1_SplitIndependent ==
    (pc = "returned" /\ nfail = 0) =>
        LET total == pos + ret
        IN  /\ ret = nbytes
            /\ Len(writers_[1]) = total \div B
            /\ \A k \in 1..Len(writers_[1]) :
                  writers_[1][k].frame = [j \in 1..B |-> XByte(pat, (k - 1) * B + j - 1)]
            /\ frame_buffer_offset_ = total % B
            /\ \A j \in 1..frame_buffer_offset_ :
                  frame_buffer_[j] = XByte(pat, (total \div B) * B + j - 1)

\* C1 witness: a call that began in the middle of a frame and ended in the
\* middle of a later one, after at least two frames went to writer 0
C1_Witness ==
    /\ pc = "returned" /\ nfail = 0 /\ ret = nbytes
    /\ pos % B # 0 /\ frame_buffer_offset_ > 0
    /\ Len(writers_[1]) >= 2 /\ nbytes > B

\* a step that is a call of append (the only steps that leave a between-calls
\* position for loop / returned / threw without touching error_)
AppendCalled ==
    /\ pc \in {"idle", "returned", "threw"}
    /\ pc' \in {"loop", "returned", "threw"}
    /\ error_' = error_

C3_ShortWriteLatches ==
    [][/\ (pc = "write_frame" /\ pc' # pc /\ ~Last(writers_'[1]).ok) =>
            (error_' # "" /\ pc' = "after_write")
       /\ (pc = "after_write" /\ pc' # pc /\ n_bytes < B) =>
            (pc' = "returned" /\ ret' < nbytes)]_vars

\* C4: finalize of a stream with a latched error reports failure.
C4_FinalizeSurfacesError ==
    (pc = "finalized" /\ error_ # "") => fin_ret = "false"

\* C5: the first error latches; a later failure does not replace it.
C5_FirstErrorLatches ==
    [][error_ # "" => error_' = error_]_vars

\* C6: a call that starts on a stream without a latched error and meets no
\* failing frame write returns all n bytes; anything else (here always an
\* exception, never a short count) comes with a failed frame write.
C6_ShortOnlyOnFailure ==
    /\ pc = "returned" => ret = nbytes
    /\ pc = "threw" =>
         \/ exc = "Cannot append data" /\ error_ # ""
         \/ exc = "write_frame_" /\ ~Last(writers_[1]).ok
         \/ /\ exc = "Failed to write frame to writer"
            /\ \E l \in 1..(nW - 1) : Len(writers_[l + 1]) > 0 /\ ~Last(writers_[l + 1]).ok

\* C6 witness: after a failed write left the frame buffer full, a later call
\* carrying more than a frame is consumed whole
C6_Witness ==
    /\ pc = "returned" /\ ret = nbytes /\ nbytes > B
    /\ nfail = 1 /\ frame_buffer_offset_ > 0 /\ error_ = ""

\* C7 as stated: when level L has a held frame, writer L gets the average, the
\* slot is cleared, and the frame fed to level L+1 is the downsampled frame
\* F_down, not the average.
C7_FeedsDownsampled ==
    \A j \in 1..Len(casc) :
        (casc[j].held # None /\ casc[j].ok) =>
            /\ casc[j].slot = None
            /\ \A k \in 1..Len(casc[j].fdown) :
                  casc[j].wrote[k] = (casc[j].fdown[k] + casc[j].held[k]) \div 2
            /\ (casc[j].level + 1 < nW) => casc[j].fed = casc[j].fdown

\* C7 amended: ... the frame fed to level L+1 is the pairwise average that was
\* written to writer L (the downsampled frame is averaged in place); the slot
\* is cleared once writer L accepted the average.
C7_FeedsAverage ==
    \A j \in 1..Len(casc) :
        casc[j].held # None =>
            /\ Len(casc[j].wrote) = Len(casc[j].fdown)
            /\ \A k \in 1..Len(casc[j].fdown) :
                  casc[j].wrote[k] = (casc[j].fdown[k] + casc[j].held[k]) \div 2
            /\ casc[j].ok =>
                  /\ casc[j].slot = None
                  /\ (casc[j].level + 1 < nW) => casc[j].fed = casc[j].wrote

\* C7 witness: a pair completed at a level that has a deeper level, and the
\* average differs from the downsampled frame
C7_Witness ==
    \E j \in 1..Len(casc) :
        /\ casc[j].held # None /\ casc[j].ok
        /\ casc[j].level + 1 < nW
        /\ casc[j].fed # None /\ casc[j].fed # casc[j].fdown

\* C8: when level L has no held frame, the downsampled frame is stored in the
\* slot and the cascade stops: writer L gets nothing, no other level's slot or
\* writer changes, and no deeper level is visited for this input frame.
C8_EmptySlotStops ==
    \A j \in 1..Len(casc) :
        /\ casc[j].level = j
        /\ casc[j].held = None =>
              /\ casc[j].slot = casc[j].fdown
              /\ casc[j].wrote = None
              /\ casc[j].stop
              /\ j = Len(casc)
              /\ \A l \in DOMAIN casc[j].others : casc[j].others[l]

\* C8 witness: the cascade of a three-level stream stopped at level 1
C8_Witness ==
    /\ pc = "after_write" /\ nW = 3
    /\ Len(casc) = 1 /\ casc[1].held = None /\ casc[1].slot # None

\* C9 as stated: after finalize, level L holds ceil(n_{L-1} / 2) frames.
C9_CeilHalf ==
    (pc = "finalized" /\ fin_ret = "true" /\ nfail = 0) =>
        \A L \in 1..(nW - 1) : Accepted(L) = (Accepted(L - 1) + 1) \div 2

\* C9 amended: after finalize (no frame write having failed), level L holds
\* floor(n_{L-1} / 2) frames: a frame still held unpaired is never written.
C9_FloorHalf ==
    (pc = "finalized" /\ fin_ret = "true" /\ nfail = 0) =>
        \A L \in 1..(nW - 1) : Accepted(L) = Accepted(L - 1) \div 2

\* C9 witness: a three-level stream finalized after an odd number of frames,
\* with the unpaired frame still held at level 1
C9_Witness ==
    /\ pc = "finalized" /\ fin_ret = "true" /\ nfail = 0
    /\ nW = 3 /\ Accepted(0) = 3 /\ Accepted(1) = 1 /\ scaled_frames_[1] # None

\* C10: no pyramid level is created whose height or width is smaller than its
\* chunk size along that dimension.
C10_NoLevelBelowChunk ==
    \A k \in 1..Len(wwriters) :
        wwriters[k].height >= wwriters[k].chunk_h /\ wwriters[k].width >= wwriters[k].chunk_w

\* the creation job of file i has failed (its try block ended with success false)
JobFailed(i) == i <= Len(jobs) /\ jobs[i].pc # "queued" /\ ~jobs[i].success

\* C11: make_data_file_sinks returns true only if no entry of the sink vector
\* is null, and a failed creation job makes it return false, under every
\* interleaving of the jobs with the waiting caller.
C11_TrueIffAllCreated ==
    /\ mret = "true" => \A i \in 1..Len(sinks) : sinks[i] # "null"
    /\ (mpc = "done" /\ \E i \in 1..n_files : JobFailed(i)) => mret = "false"

\* C12: make_dirs returns true if and only if all requested directories exist
\* when it returns, under every interleaving of the jobs with each other and
\* with the caller, also when one directory is an ancestor of another.
C12_TrueIffAllExist ==
    (mpc = "done" /\ thread_pool_ = "running") =>
        (mret = "true" <=> \A i \in 1..Len(dir_paths) : dir_paths[i] \in fs)

C14_OverwriteReplaces ==
    (md_status = "Success" /\ md_call.overwrite) => acquire_bytes = md_call.str

\* C15: stream creation is rejected when a dimension with a bounded (nonzero)
\* extent has a chunk size larger than the extent, so that every created
\* stream has chunk_px <= extent_px on all bounded dimensions.
C15_ChunkWithinExtent ==
    vpc = "created" =>
        \A i \in 1..Len(dimensions_) :
            dimensions_[i].array_size_px # 0 =>
                dimensions_[i].chunk_size_px <= dimensions_[i].array_size_px

\* the settings have one of the defects listed in C16
Defective(s) ==
    LET ndims == Len(s.dimensions)
    IN  \/ s.data_type >= ZarrDataTypeCount
        \/ ndims < 3
        \/ s.dimensions[ndims].type # "space"
        \/ s.dimensions[ndims - 1].type # "space"
        \/ \E i \in 2..ndims : s.dimensions[i].array_size_px = 0
        \/ \E i \in 1..ndims : s.dimensions[i].chunk_size_px = 0
        \/ s.version = 3 /\ \E i \in 1..ndims : s.dimensions[i].shard_size_chunks = 0

\* C16: creation fails, producing no stream, writers or metadata, whenever the
\* data type is out of range, there are fewer than 3 dimensions, one of the
\* last two dimensions is not of type space, a dimension other than the first
\* has zero extent, a dimension has zero chunk size or (v3) zero shard size;
\* settings without these defects, a zero extent on the first dimension
\* included, are accepted.
C16_RejectsDefective ==
    /\ (vpc # "start" /\ Defective(vsettings)) =>
          /\ vpc = "rejected" /\ error_ # ""
          /\ dimensions_ = <<>> /\ writers_ = <<>> /\ metadata_sinks_ = {}
          /\ thread_pool_ = "stopped"
    /\ (vpc # "start" /\ ~Defective(vsettings)) =>
          /\ vpc = "created" /\ error_ = ""
          /\ dimensions_ = vsettings.dimensions /\ Len(writers_) >= 1

\* C16 witness: settings with an unbounded first dimension were rejected
\* because a later dimension has zero extent
C16_Witness ==
    /\ vpc = "rejected" /\ error_ = "Array size must be nonzero"
    /\ vsettings.dimensions[1].array_size_px = 0 /\ vsettings.version = 3

\* C17: the multiscales metadata lists exactly one dataset per writer level,
\* with path equal to the level number; the level-0 scale vector is 1.0 in all
\* ndims entries; for each level i >= 1 the scale vector has ndims entries:
\* 2^i for the append dimension, 1 for every dimension between it and the two
\* spatial ones, and 2^i for each of the two spatial dimensions.
C17_OneDatasetPerLevel ==
    opc = "done" =>
        /\ Len(multiscales.datasets) = Len(writers_)
        /\ \A l \in 0..(Len(writers_) - 1) :
              LET ds == multiscales.datasets[l + 1]
              IN  /\ ds.path = to_string(l)
                  /\ Len(ds.scale) = n_dims
                  /\ ds.scale[1] = 2 ^ l
                  /\ \A d \in 2..(n_dims - 2) : ds.scale[d] = 1
                  /\ ds.scale[n_dims - 1] = 2 ^ l
                  /\ ds.scale[n_dims] = 2 ^ l

\* C17 witness: metadata built for a five-dimensional stream with three levels
C17_Witness ==
    /\ opc = "done" /\ n_dims = 5 /\ Len(writers_) = 3
    /\ multiscales.datasets[3].scale = <<4, 1, 1, 4, 4>>

\* the steps of one kind in the log, as positions
StepsOf(step) == { j \in 1..Len(fin_log) : fin_log[j].step = step }

\* C18: when finalize_stream returns success, every metadata sink has been
\* flushed and released, every writer has been finalized, and the thread pool
\* has been stopped, in that order: every writer is finalized while the pool
\* is still running, and the pool is stopped last.
C18_FinalizeOrder ==
    (pc = "finalized" /\ fin_ret = "true") =>
        /\ metadata_sinks_ = {}
        /\ \E custom \in BOOLEAN :
              { fin_log[j].name : j \in StepsOf("sink") }
                  = MetadataSinkNames(version_, custom)
        /\ \A j \in StepsOf("sink") : fin_log[j].ok
        /\ writers_finalized = 0..Len(scaled_frames_)
        /\ { fin_log[j].level : j \in StepsOf("writer") } = 0..Len(scaled_frames_)
        /\ \A j \in StepsOf("writer") : fin_log[j].ok /\ fin_log[j].pool = "running"
        /\ \A j \in StepsOf("sink") : \A k \in StepsOf("writer") : j < k
        /\ StepsOf("stop") = {Len(fin_log)}
        /\ thread_pool_ = "stopped"

\* C18 witness: a successful finalize of a v2 stream with custom metadata and
\* three levels
C18_Witness ==
    /\ pc = "finalized" /\ fin_ret = "true"
    /\ Len(scaled_frames_) = 2 /\ version_ = 2
    /\ "acquire.json" \in { fin_log[j].name : j \in StepsOf("sink") }
    /\ thread_pool_ = "stopped"

\* C19: when one step of finalize fails (group metadata write, a metadata
\* sink flush, or one writer's finalization), finalize still attempts every
\* remaining sink and writer and still waits for the thread pool.
C19_BestEffort ==
    (pc = "finalized" /\ fin_ret = "false") =>
        /\ \E custom \in BOOLEAN :
              { fin_log[j].name : j \in StepsOf("sink") }
                  = MetadataSinkNames(version_, custom)
        /\ { fin_log[j].level : j \in StepsOf("writer") } = 0..Len(scaled_frames_)
        /\ thread_pool_ = "stopped"

\* C20: a failed thread-pool job reports its error through the stream's error
\* callback and does not cancel its siblings: after one job of a batch has
\* failed, every other submitted job still does its own work, so a job that
\* has run on a path whose FileSink constructor does not throw has created
\* its sink.
C20_SiblingsStillWork ==
    \A i \in 1..Len(jobs) :
        /\ (jobs[i].pc = "done" /\ ~jobs[i].success) => error_ # ""
        /\ (jobs[i].pc # "queued" /\ ~file_paths[i]) => sinks[i] = "sink"

\* trunc((a + b) / 2) over the integers, for a type's representation
TrueMean(T, a, b) ==
    IF T = "uint32"
      THEN LET lo == a[2] + b[2]
               hi == a[1] + b[1] + (lo \div Half)
           IN  <<hi \div 2, ((lo % Half) + (hi % 2) * Half) \div 2>>
      ELSE TruncDiv(a + b, 2)

\* C21: the pairwise temporal average writes out[i] = trunc((a[i] + b[i]) / 2)
\* for every element and every integer data type, including a 32-bit type
\* whose two operands sum to more than the type's maximum.
C21_AverageExact ==
    (call_pc = "done" /\ call_args.fn = "average_two_frames") =>
        \A k \in 1..Len(call_ret) :
            call_ret[k] = TrueMean(call_args.T, call_args.dst[k], call_args.src[k])

CeilHalf(n) == (n + 1) \div 2

\* C22: spatial downsampling of an H x W frame yields ceil(H/2) x ceil(W/2)
\* elements and sets the tracked width and height to those values; output
\* element (r, c) is the truncated mean of the 2x2 block at (2r, 2c), the last
\* row or column standing in for the missing one when H or W is odd; nothing
\* outside the H x W frame is read.
C22_ScaleImage ==
    (call_pc = "done" /\ call_args.fn = "scale_image") =>
        LET H == call_args.height
            W == call_args.width
            out == call_ret.scaled
            pixel(r, c) == call_args.src[Min(r, H - 1) * W + Min(c, W - 1) + 1]
        IN  /\ Len(out.dst) = CeilHalf(H) * CeilHalf(W)
            /\ out.width = CeilHalf(W) /\ out.height = CeilHalf(H)
            /\ \A r \in 0..(CeilHalf(H) - 1), c \in 0..(CeilHalf(W) - 1) :
                  out.dst[r * CeilHalf(W) + c + 1] =
                      TruncDiv(pixel(2 * r, 2 * c) + pixel(2 * r, 2 * c + 1)
                               + pixel(2 * r + 1, 2 * c) + pixel(2 * r + 1, 2 * c + 1), 4)
            /\ call_ret.reads \subseteq 0..(H * W - 1)

\* C22 witness: a 3 x 3 frame in a longer buffer, whose corner block is the
\* replicated last element
C22_Witness ==
    /\ call_pc = "done" /\ call_args.fn = "scale_image"
    /\ call_args.width = 3 /\ call_args.height = 3
    /\ Len(call_args.src) = 10
    /\ call_args.src[9] = 255 /\ call_args.src[10] = 0
    /\ call_ret.scaled.dst[4] = 255
    /\ call_ret.scaled.dst[1] = 63

\* the product of parts[d] for d in from..Len(parts)
RECURSIVE Product(_, _)
Product(parts, from) ==
    IF from > Len(parts) THEN 1 ELSE parts[from] * Product(parts, from + 1)

\* base/k_1/.../k_m for the idx-th index tuple in row-major order
RECURSIVE RowMajorPath(_, _, _, _)
RowMajorPath(base, parts, idx, d) ==
    IF d > Len(parts)
      THEN base
      ELSE RowMajorPath(base \o <<"/">> \o to_string((idx \div Product(parts, d + 1)) % parts[d]),
                        parts, idx, d + 1)

\* C28: construct_data_paths returns exactly the product of the parts of
\* dimensions 1..ndims-1 paths, pairwise distinct, each base/k_1/.../k_{ndims-1}
\* with 0 <= k_d < parts(d), in row-major order (the last index varies
\* fastest); it fails exactly when one of those dimensions has zero parts.
C28_RowMajorPaths ==
    (call_args # <<>> /\ call_args.fn = "construct_data_paths" /\ call_pc # "start") =>
        LET parts == call_args.parts
        IN  /\ call_pc = "threw" <=> \E d \in 1..Len(parts) : parts[d] = 0
            /\ call_pc = "done" =>
                  /\ Len(call_ret) = Product(parts, 1)
                  /\ \A a, b \in 1..Len(call_ret) : a # b => call_ret[a] # call_ret[b]
                  /\ \A a \in 1..Len(call_ret) :
                        call_ret[a] = RowMajorPath(call_args.base_path, parts, a - 1, 1)

\* C28 witness: four dimensions with 2 x 3 x 2 parts give twelve paths, the
\* last index fastest
C28_Witness ==
    /\ call_pc = "done" /\ call_args.fn = "construct_data_paths"
    /\ call_args.parts = <<2, 3, 2>> /\ call_args.base_path = <<"b">>
    /\ Len(call_ret) = 12
    /\ call_ret[2] = <<"b", "/", "0", "/", "0", "/", "1">>
    /\ call_ret[12] = <<"b", "/", "1", "/", "2", "/", "1">>

CeilDiv(a, b) == (a + b - 1) \div b

\* C23: after K frames are written to level 0 and the writer is finalized, the
\* number of chunk objects is ceil(K / append_chunk_px) times the product of
\* the chunks along the other dimensions, each chunk row contributing exactly
\* that product of distinct paths.
C23_ChunkCount ==
    (array_writer # <<>> /\ array_writer.state = "Finalized") =>
        LET per_row == Product(array_writer.parts, 1)
            rows == CeilDiv(array_writer.frames_written_, array_writer.chunk_px)
            paths == { o.path : o \in store }
        IN  /\ Cardinality(paths) = rows * per_row
            /\ Cardinality(store) = Cardinality(paths)
            /\ \A r \in 0..(rows - 1) :
                  Cardinality({ o.path : o \in { x \in store : x.row = r } }) = per_row

\* C23 witness: three frames in rows of two, 2 x 2 chunks per row: two rows,
\* the second one partial, eight objects
C23_Witness ==
    /\ array_writer # <<>> /\ array_writer.state = "Finalized"
    /\ array_writer.frames_written_ = 3 /\ array_writer.chunk_px = 2
    /\ array_writer.parts = <<2, 2>>
    /\ Cardinality(store) = 8

\* the frames of chunk row r of a writer with the given chunk_px, in input order
RowFrames(r, chunk_px, written) ==
    [k \in 1..(Min(written, (r + 1) * chunk_px) - r * chunk_px) |-> r * chunk_px + k]

\* C24: a writer goes from Appending to Flushing exactly when the frames
\* written into the current chunk row number chunk_px of the append dimension;
\* it accepts a frame only when every compress+write job of the previous flush
\* has completed and every chunk of the earlier rows is in the store; so the
\* chunk objects reach the store row after row, each holding its frames in
\* input order.
C24_FlushBarrier ==
    [][LET w == array_writer
           w2 == array_writer'
       IN  w # <<>> =>
             /\ (w.state = "Appending" /\ w2.frames_written_ = w.frames_written_ + 1) =>
                   (w2.state = "Flushing" <=> Len(w2.buffered) = w.chunk_px)
             /\ (w2.state = "Flushing" /\ w.state # "Flushing") =>
                   (w.state = "Appending" /\ w2.frames_written_ = w.frames_written_ + 1)
             /\ (w2.frames_written_ # w.frames_written_) =>
                   /\ chunk_jobs = {}
                   /\ \A r \in 0..(w.append_chunk_index_ - 1) :
                         Cardinality({ o \in store : o.row = r }) = Product(w.parts, 1)
             /\ \A o \in store' \ store :
                   /\ \A x \in store : x.row <= o.row
                   /\ o.frames = RowFrames(o.row, w.chunk_px, w.frames_written_)]_vars

\* C24 witness: the first frame of the second chunk row sits in the buffers,
\* all four chunks of the first row are in the store
C24_Witness ==
    /\ array_writer # <<>> /\ array_writer.state = "Appending"
    /\ array_writer.append_chunk_index_ = 1 /\ array_writer.buffered = <<3>>
    /\ array_writer.parts = <<2, 2>>
    /\ Cardinality(store) = 4

\* the value of a uint64 kept in four parts (small values only)
FromU64(v) == v[3] * Half + v[4]

\* C25: for every shard object written, the trailing index has one
\* (offset, size) entry per chunk position; entry i describes the chunk at
\* position i whatever the order in which the chunk jobs completed: the bytes
\* at [offset, offset + size) are that chunk's; absent chunks carry
\* offset = size = 2^64 - 1.
C25_ShardIndex ==
    (array_writer # <<>> /\ array_writer.state = "Written") =>
        \A o \in store :
            /\ Len(o.index) = array_writer.n_chunks
            /\ \A i \in 1..array_writer.n_chunks :
                  IF i \in array_writer.present
                    THEN /\ o.index[i].offset # Absent /\ o.index[i].size # Absent
                         /\ SubSeq(o.data, FromU64(o.index[i].offset) + 1,
                                   FromU64(o.index[i].offset) + FromU64(o.index[i].size))
                               = array_writer.compressed[i]
                    ELSE o.index[i].offset = Absent /\ o.index[i].size = Absent

\* C25 witness: three positions, the middle one absent, the last chunk
\* compressed first
C25_Witness ==
    /\ array_writer # <<>> /\ array_writer.state = "Written"
    /\ array_writer.n_chunks = 3 /\ array_writer.present = {1, 3}
    /\ array_writer.completed = <<3, 1>>
    /\ Len(array_writer.compressed[1]) = 2
    /\ \E o \in store : o.index[3].offset = U64(2) /\ o.index[2].size = Absent

\* C26: write_frame_ hands each complete frame to writer 0 before any
\* downsampled level is written; the multiscale cascade runs only if writer 0
\* accepted the whole frame; with multiscale disabled nothing is scaled and no
\* downsampled write is made.
C26_Writer0First ==
    [][/\ (pc = "write_frame" /\ pc' # pc) =>
            /\ Len(writers_'[1]) = Len(writers_[1]) + 1
            /\ Last(writers_'[1]).frame = cur.data
            /\ casc' = <<>>
            /\ pc' = "cascade" => Last(writers_'[1]).ok
       /\ (pc # "cascade") =>
            /\ \A l \in 2..nW : writers_'[l] = writers_[l]
            /\ scaled_frames_' = scaled_frames_
       /\ (pc = "cascade") =>
            /\ writers_'[1] = writers_[1]
            /\ Last(writers_[1]).ok /\ Last(writers_[1]).frame = cur.data
       /\ ~settings.multiscale =>
            /\ nW = 1 /\ casc' = <<>> /\ scaled_frames_' = scaled_frames_]_vars

\* C26 witness: a frame accepted by writer 0 has gone through the cascade and
\* reached the writer of level 1
C26_Witness ==
    /\ pc = "after_write" /\ settings.multiscale
    /\ Last(writers_[1]).ok /\ Last(writers_[1]).frame = cur.data
    /\ casc # <<>> /\ Len(writers_[2]) > 0

\* C27: when the writer of a downsampled level (level >= 1) fails to write an
\* averaged frame during the cascade, the stream is marked errored, so that
\* every later append call short-circuits: it throws "Cannot append data"
\* and hands no frame to any writer.
C27_CascadeFailureLatches ==
    [][/\ (pc = "cascade" /\ \E l \in 2..nW :
              Len(writers_'[l]) > Len(writers_[l]) /\ ~Last(writers_'[l]).ok) =>
            error_' # ""
       /\ (exc = "Failed to write frame to writer" /\ pc = "threw" /\ pc' # pc) =>
            (pc' \in {"threw", "finalized"} /\ writers_' = writers_)]_vars

\* how often both spatial extents can be halved while extent / 2 >= chunk_px
RECURSIVE Halvings(_, _, _, _)
Halvings(h, w, chunk_h, chunk_w) ==
    IF h \div 2 >= chunk_h /\ w \div 2 >= chunk_w
      THEN 1 + Halvings((h + 1) \div 2, (w + 1) \div 2, chunk_h, chunk_w)
      ELSE 0

\* C29: writer creation with multiscale enabled ends after finitely many
\* rounds of the downsampling loop, with 1 plus as many writers as the number
\* of times the non-append dimensions can be halved while
\* extent / 2 >= chunk_px.
C29_WriterCount ==
    (wpc = "done" /\ wsettings.multiscale) =>
        Len(wwriters) = 1 + Halvings(wsettings.height, wsettings.width,
                                     wsettings.chunk_h, wsettings.chunk_w)

\* ------------------------------------------------------------ finalize_sink
\* an empty std::unique_ptr<Sink>
nullptr == [kind |-> "null", buffered |-> 0, durable |-> 0]

\* the sinks a caller can hand over: a file or S3 sink with some bytes written
\* through write() and some made durable by an earlier flush
Sinks ==
    { [kind |-> k, buffered |-> b, durable |-> d] :
        k \in {"file", "s3"}, b \in 0..MaxBuffered, d \in 0..MaxBuffered }

\* Sink::flush_(): when it succeeds the bytes written so far become durable
\* (file) or are uploaded (S3); when it fails the sink is as it was
flush_(sink, ok) ==
    IF ok
      THEN [sink EXCEPT !.buffered = 0, !.durable = sink.durable + sink.buffered]
      ELSE sink

\* a finalize_sink that resets the sink whatever flush_ returned
after_flush_always_reset(ok) == "reset"

\* if (!sink->flush_()) { return false; } sink.reset();
after_flush(ok) == IF ~ok THEN "return_false" ELSE "reset"

\* a call finalize_sink(std::move(sink)); call_ret holds the caller's pointer,
\* the operations applied to it and the value returned
InitK ==
    /\ AllOff
    /\ call_pc = "start"
    /\ \E sink \in Sinks \cup {nullptr} :
          /\ call_args = [fn |-> "finalize_sink", sink |-> sink]
          /\ call_ret = [sink |-> sink, ops |-> <<>>, flushed |-> "none",
                         value |-> "none"]

\* if (sink == nullptr) { LOG_INFO(...); return true; }
finalize_sink_null_check ==
    /\ call_pc = "start"
    /\ call_args.fn = "finalize_sink"
    /\ IF call_ret.sink = nullptr
         THEN /\ call_pc' = "done"
              /\ call_ret' = [call_ret EXCEPT !.value = "true"]
         ELSE /\ call_pc' = "flush"
              /\ UNCHANGED call_ret
    /\ UNCHANGED <<call_args, restCall>>

\* if (!sink->flush_()) { return false; }
finalize_sink_flush(ok) ==
    /\ call_pc = "flush"
    /\ call_args.fn = "finalize_sink"
    /\ LET flushed == [call_ret EXCEPT !.sink = flush_(call_ret.sink, ok),
                                      !.ops = Append(call_ret.ops, "flush_"),
                                      !.flushed = IF ok THEN "ok" ELSE "failed"]
       IN  IF after_flush(ok) = "return_false"
             THEN /\ call_pc' = "done"
                  /\ call_ret' = [flushed EXCEPT !.value = "false"]
             ELSE /\ call_pc' = "reset"
                  /\ call_ret' = flushed
    /\ UNCHANGED <<call_args, restCall>>

\* sink.reset(); return true;
finalize_sink_reset ==
    /\ call_pc = "reset"
    /\ call_args.fn = "finalize_sink"
    /\ call_pc' = "done"
    /\ call_ret' = [call_ret EXCEPT !.sink = nullptr,
                                   !.ops = Append(call_ret.ops, "reset"),
                                   !.value = "true"]
    /\ UNCHANGED <<call_args, restCall>>

NextK ==
    \/ finalize_sink_null_check
    \/ \E ok \in BOOLEAN : finalize_sink_flush(ok)
    \/ finalize_sink_reset

SpecK == InitK /\ [][NextK]_vars

\* C30: finalize_sink returns true for a null sink and does nothing; a
\* non-null sink is flushed first, is released only when the flush succeeded
\* (true is returned), and is left unreleased when the flush failed (false is
\* returned).
C30_FinalizeSink ==
    (call_pc = "done" /\ call_args.fn = "finalize_sink") =>
        IF call_args.sink = nullptr
          THEN /\ call_ret.value = "true"
               /\ call_ret.ops = <<>>
               /\ call_ret.sink = nullptr
          ELSE /\ call_ret.ops # <<>> /\ call_ret.ops[1] = "flush_"
               /\ call_ret.flushed = "ok" =>
                     /\ call_ret.ops = <<"flush_", "reset">>
                     /\ call_ret.sink = nullptr
                     /\ call_ret.value = "true"
               /\ call_ret.flushed # "ok" =>
                     /\ call_ret.ops = <<"flush_">>
                     /\ call_ret.sink = call_args.sink
                     /\ call_ret.value = "false"

\* a sink with unflushed bytes whose flush failed: false is returned and the
\* caller still holds the sink
C30_Witness ==
    /\ call_pc = "done" /\ call_args.fn = "finalize_sink"
    /\ call_args.sink # nullptr /\ call_args.sink.buffered > 0
    /\ call_ret.flushed = "failed"
    /\ call_ret.value = "false"
    /\ call_ret.sink = call_args.sink

\* frame k (0-based) of the caller's stream
InputFrame(k) == [j \in 1..B |-> XByte(pat, k * B + j - 1)]

\* the frames writer 0 accepted, in the order it received them
AcceptedBy0 ==
    LET Ok(e) == e.ok
        acc == SelectSeq(writers_[1], Ok)
    IN  [k \in 1..Len(acc) |-> acc[k].frame]

\* C31: over any sequence of append calls, one that aborts in the cascade
\* after writer 0 took the frame included, writer 0 receives every input
\* frame at most once and in input order: the frames it accepted are input
\* frames of strictly increasing index.
C31_AtMostOnceInOrder ==
    /\ \A k \in 1..Len(AcceptedBy0) :
          \E i \in 0..(MaxFrames - 1) : AcceptedBy0[k] = InputFrame(i)
    /\ \A k \in 1..(Len(AcceptedBy0) - 1) :
          \E i \in 0..(MaxFrames - 1) : \E j \in (i + 1)..(MaxFrames - 1) :
             /\ AcceptedBy0[k] = InputFrame(i)
             /\ AcceptedBy0[k + 1] = InputFrame(j)

\* C32: after an append call that returns with no write failure the frame
\* buffer offset lies in 0..bytes_per_frame-1 and is the number of bytes
\* accepted so far modulo bytes_per_frame; a frame that arrives whole while
\* the buffer is empty is handed to write_frame_ straight from the input, and
\* neither the frame buffer nor its offset changes while it is written.
C32_OffsetInvariant ==
    /\ []((pc = "returned" /\ nfail = 0) =>
            /\ 0 <= frame_buffer_offset_ /\ frame_buffer_offset_ < B
            /\ frame_buffer_offset_ = (pos + ret) % B)
    /\ [][/\ (append_loop /\ frame_buffer_offset_ = 0 /\ nbytes - bytes_written >= B) =>
               /\ pc' = "write_frame"
               /\ cur' = [src |-> "input", data |-> Input(pat, pos + data, B)]
               /\ UNCHANGED <<frame_buffer_, frame_buffer_offset_>>
          /\ ((write_frame_ \/ write_multiscale_frames_ \/ append_after_write)
                 /\ cur.src = "input") =>
               UNCHANGED <<frame_buffer_, frame_buffer_offset_>>]_vars

\* C32 witness: a call that began on an empty buffer, carried more than one
\* frame, wrote its first frame straight from the input and left the rest in
\* the frame buffer
C32_Witness ==
    /\ pc = "returned" /\ nfail = 0 /\ ret = nbytes
    /\ pos % B = 0 /\ nbytes > B
    /\ Len(writers_[1]) = (pos + ret) \div B
    /\ frame_buffer_offset_ = (pos + ret) % B /\ frame_buffer_offset_ > 0

\* frames that arrived at level L: every frame writer 0 accepted enters the
\* cascade at level 1, every frame written to writer L goes on to level L + 1
Arrivals(L) == Accepted(L - 1)

RECURSIVE Pow2(_)
Pow2(L) == IF L = 0 THEN 1 ELSE 2 * Pow2(L - 1)

\* C33: between append calls, no write having failed, every level L >= 1
\* holds a frame exactly when an odd number of frames has arrived at it,
\* writer L has received floor(arrivals / 2) frames, which are the arrivals of
\* level L + 1, so after K input frames writer L has floor(K / 2^L) frames.
C33_PairingCounts ==
    (pc \in {"idle", "returned"} /\ nfail = 0) =>
        \A L \in 1..(nW - 1) :
            /\ (scaled_frames_[L] # None) <=> (Arrivals(L) % 2 = 1)
            /\ Len(writers_[L + 1]) = Arrivals(L) \div 2
            /\ Accepted(L) = Len(writers_[L + 1])
            /\ Len(writers_[L + 1]) = Len(writers_[1]) \div Pow2(L)

\* C33 witness: four frames into a three-level stream: level 2 has paired its
\* two arrivals and no level holds a frame
C33_Witness ==
    /\ pc = "returned" /\ nfail = 0 /\ nW = 3
    /\ Len(writers_[1]) = 4 /\ Len(writers_[2]) = 2 /\ Len(writers_[3]) = 1
    /\ scaled_frames_[1] = None /\ scaled_frames_[2] = None

\* C34: in every interleaving, no job pushed by make_file_sinks touches the
\* latch or the success flag of the submitting call after that call has
\* returned or thrown.
C34_NoAccessAfterReturn == ~dangling

\* C35: creating a stream with settings that fail validation changes nothing
\* in the store: the store path and its contents are touched only after
\* every settings check has passed, and rejected settings get no thread
\* pool, no writer and no metadata sink.
C35_RejectedLeavesStore ==
    /\ [][/\ vpc' = "rejected" => (vpc = "start" /\ UNCHANGED <<fs, store>>)
          /\ (fs' # fs \/ store' # store) =>
                (vpc \in {"store", "stored"} /\ validate_settings_fs(vsettings, fs) = "")]_vars
    /\ [](vpc \in {"start", "rejected"} =>
            /\ thread_pool_ = "stopped" /\ writers_ = <<>> /\ metadata_sinks_ = {}
            /\ dimensions_ = <<>>)

\* C35 witness: settings with a defective dimension were rejected while the
\* store path exists and holds the objects of an earlier acquisition
C35_Witness ==
    /\ vpc = "rejected" /\ error_ = "Invalid chunk size"
    /\ store_path_ \in fs /\ store = OldObjects
    /\ thread_pool_ = "stopped" /\ writers_ = <<>>

\* C36: a write_custom_metadata call that failed (invalid JSON, no sink, or a
\* failed sink write) does not count as having written custom metadata:
\* WillNotOverwrite is returned only when an earlier call succeeded.
C36_FailedCallNotCounted ==
    md_status = "WillNotOverwrite" => md_written

====
